---------------------------- MODULE Spec2Model ----------------------------
(***************************************************************************)
(* A model of mac_dict_to_md: the splitter's file naming (split.py) and    *)
(* the entry renderer (src/mac_dict_to_md/parse.py).                       *)
(*                                                                         *)
(* Representation.  A Python str is a sequence of one-character strings.   *)
(* A character outside ASCII is written as one token: "^d" is the          *)
(* superscript digit d, "_d" the subscript digit d, "n/d" the precomposed  *)
(* vulgar fraction, "frasl" the fraction slash U+2044.  Python's None is   *)
(* the value None below, which is no str.  An Element is a record with its *)
(* tag, its class attribute (None when absent, else the token list that    *)
(* str.split() yields), its title attribute (None when absent), text, tail *)
(* and the sequence of its children.                                       *)
(***************************************************************************)
EXTENDS Integers, Sequences, FiniteSets, TLC

VARIABLES
    phase,                \* position of the operation under study
    input,                \* its argument
    output,               \* its return value
    previous,             \* the return value of the call before, if any
    unhandled_tags,       \* parse.py:16   tag   -> <<source file, snippet>>
    unhandled_classes,    \* parse.py:17   class -> <<source file, snippet>>
    current_source_file,  \* parse.py:20   _current_source_file
    calls,                \* the track_element calls made so far: <<file, elem>>
    xml_files,            \* process_directory: sorted(dir_path.glob("*.xml"))
    idx,                  \* process_directory: number of files the loop has taken
    count,                \* process_directory: count
    log,                  \* the lines printed, in order: <<stream, kind, name>>
    written               \* the .md files written (names)

vars == <<phase, input, output, previous, unhandled_tags, unhandled_classes,
          current_source_file, calls, xml_files, idx, count, log, written>>

trackerVars == <<unhandled_tags, unhandled_classes, current_source_file, calls>>
directoryVars == <<xml_files, idx, count, log, written>>

-----------------------------------------------------------------------------
(* Python values and str methods *)

None == <<"None">>
\* The outcome of a call that raised (TypeError, AttributeError, ...).
Raise == <<"Raise">>

Truthy(s) == s # None /\ s # <<>>

\* str.isspace() for the characters of the model.
Whitespace == {" ", "\n", "\t", "\r"}

Digits == {"0", "1", "2", "3", "4", "5", "6", "7", "8", "9"}

RECURSIVE lstrip(_)
lstrip(s) ==
    IF s # <<>> /\ Head(s) \in Whitespace THEN lstrip(Tail(s)) ELSE s

RECURSIVE rstrip(_)
rstrip(s) ==
    IF s # <<>> /\ s[Len(s)] \in Whitespace
    THEN rstrip(SubSeq(s, 1, Len(s) - 1))
    ELSE s

strip(s) == lstrip(rstrip(s))

\* "".join(parts) for a list of str.
RECURSIVE Concat(_)
Concat(parts) ==
    IF parts = <<>> THEN <<>> ELSE Head(parts) \o Concat(Tail(parts))

\* "".join(result): a TypeError when an item is not a str; an exception
\* raised while an item was computed propagates.
Join(parts) ==
    IF \E i \in 1..Len(parts) : parts[i] = None \/ parts[i] = Raise
    THEN Raise
    ELSE Concat(parts)

\* text.split(): the maximal runs of non-whitespace characters.
RECURSIVE split(_)
split(s) ==
    LET t == lstrip(s) IN
    IF t = <<>> THEN <<>>
    ELSE LET n == CHOOSE k \in 1..Len(t) :
                    /\ \A j \in 1..k : t[j] \notin Whitespace
                    /\ (k = Len(t) \/ t[k + 1] \in Whitespace)
         IN <<SubSeq(t, 1, n)>> \o split(SubSeq(t, n + 1, Len(t)))

RECURSIVE JoinWith(_, _)
JoinWith(sep, parts) ==
    IF parts = <<>> THEN <<>>
    ELSE IF Len(parts) = 1 THEN parts[1]
    ELSE parts[1] \o sep \o JoinWith(sep, Tail(parts))

normalize_whitespace(text) == JoinWith(<<" ">>, split(text))

In(x, seq) == \E i \in 1..Len(seq) : seq[i] = x

\* "".join(c for c in text if c.isdigit())
RECURSIVE OnlyDigits(_)
OnlyDigits(s) ==
    IF s = <<>> THEN <<>>
    ELSE (IF Head(s) \in Digits THEN <<Head(s)>> ELSE <<>>) \o OnlyDigits(Tail(s))

DigitValue(c) ==
    CASE c = "0" -> 0 [] c = "1" -> 1 [] c = "2" -> 2 [] c = "3" -> 3
      [] c = "4" -> 4 [] c = "5" -> 5 [] c = "6" -> 6 [] c = "7" -> 7
      [] c = "8" -> 8 [] c = "9" -> 9

\* int(s) for a str of digits; int("") raises ValueError.
RECURSIVE int(_)
int(s) ==
    IF Len(s) = 1 THEN DigitValue(s[1])
    ELSE 10 * int(SubSeq(s, 1, Len(s) - 1)) + DigitValue(s[Len(s)])

IntRaisesValueError(s) == s = <<>>

-----------------------------------------------------------------------------
(* Code tables, parse.py:23-170 *)

D_PRN == "{http://www.apple.com/DTDs/DictionaryService-1.0.rng}prn"
D_DEF == "{http://www.apple.com/DTDs/DictionaryService-1.0.rng}def"
D_POS == "{http://www.apple.com/DTDs/DictionaryService-1.0.rng}pos"
D_ENTRY == "{http://www.apple.com/DTDs/DictionaryService-1.0.rng}entry"

KNOWN_TAGS ==
    {"a", "span", "d:entry", "d:def", "d:pos", "d:prn", D_ENTRY, D_DEF, D_POS, D_PRN}

HANDLED_CLASSES ==
    {"hg", "hw", "prx", "ph", "gp", "hsb", "syl_txt",
     "sg", "se1", "se2", "msDict", "posg", "pos", "gg", "x_xdh",
     "df", "eg", "ex", "f", "fg", "ge", "lg", "reg", "bold", "l", "lbl",
     "sn", "sj", "work", "tx", "q", "sy", "subEnt", "sup",
     "frac", "nu", "dn",
     "subEntryBlock", "subEntry", "etym", "note", "dg", "date", "la", "ff",
     "trans", "pr",
     "t_respell", "t_IPA", "t_first", "t_subsense", "t_core", "t_phrases",
     "t_phrasalVerbs", "t_derivatives", "ty_label", "x_xh0", "x_xd0",
     "x_xd1", "x_xd1sub", "x_xdt", "x_xo0", "x_xo1", "x_xo2", "x_xoh",
     "x_xoLblBlk", "hasSn", "entry", "x_blk", "xr", "xrg", "xrlabelGroup",
     "xrlabel", "v", "vg"}

\* cls.startswith("tg_"), for the class tokens of the model.
StartsWithTg(cls) == cls \in {"tg_xr", "tg_hw"}

\* SUPERSCRIPT.get(c, c)
SUPERSCRIPT(c) ==
    CASE c = "0" -> "^0" [] c = "1" -> "^1" [] c = "2" -> "^2"
      [] c = "3" -> "^3" [] c = "4" -> "^4" [] c = "5" -> "^5"
      [] c = "6" -> "^6" [] c = "7" -> "^7" [] c = "8" -> "^8"
      [] c = "9" -> "^9" [] OTHER -> c

\* SUBSCRIPT.get(c, c)
SUBSCRIPT(c) ==
    CASE c = "0" -> "_0" [] c = "1" -> "_1" [] c = "2" -> "_2"
      [] c = "3" -> "_3" [] c = "4" -> "_4" [] c = "5" -> "_5"
      [] c = "6" -> "_6" [] c = "7" -> "_7" [] c = "8" -> "_8"
      [] c = "9" -> "_9" [] OTHER -> c

ToSuperscript(s) == [i \in 1..Len(s) |-> SUPERSCRIPT(s[i])]
ToSubscript(s) == [i \in 1..Len(s) |-> SUBSCRIPT(s[i])]

UNICODE_FRACTIONS ==
    (<<1, 2>> :> "1/2") @@ (<<1, 3>> :> "1/3") @@ (<<2, 3>> :> "2/3") @@
    (<<1, 4>> :> "1/4") @@ (<<3, 4>> :> "3/4") @@ (<<1, 5>> :> "1/5") @@
    (<<2, 5>> :> "2/5") @@ (<<3, 5>> :> "3/5") @@ (<<4, 5>> :> "4/5") @@
    (<<1, 6>> :> "1/6") @@ (<<5, 6>> :> "5/6") @@ (<<1, 7>> :> "1/7") @@
    (<<1, 8>> :> "1/8") @@ (<<3, 8>> :> "3/8") @@ (<<5, 8>> :> "5/8") @@
    (<<7, 8>> :> "7/8") @@ (<<1, 9>> :> "1/9") @@ (<<1, 10>> :> "1/10")

FRACTION_SLASH == "frasl"

-----------------------------------------------------------------------------
(* Class and text queries, parse.py:173-215 *)

\* elem.get("class", "").split()
get_class(elem) == IF elem.cls = None THEN <<>> ELSE elem.cls

has_class(elem, cls) == In(cls, get_class(elem))

\* list(elem.itertext()) joined: text, then per child its itertext and tail.
RECURSIVE itertext(_)
RECURSIVE ItertextKids(_, _)
ItertextKids(kids, i) ==
    IF i > Len(kids) THEN <<>>
    ELSE itertext(kids[i])
         \o (IF Truthy(kids[i].tail) THEN kids[i].tail ELSE <<>>)
         \o ItertextKids(kids, i + 1)
itertext(elem) ==
    (IF Truthy(elem.text) THEN elem.text ELSE <<>>) \o ItertextKids(elem.kids, 1)

get_all_text(elem) == strip(itertext(elem))

-----------------------------------------------------------------------------
(* The unknown-pattern tracker, parse.py:246-257 *)

SNIPPET_LIMIT == 300

RECURSIVE tostring(_)
RECURSIVE TostringKids(_, _)
TostringKids(kids, i) ==
    IF i > Len(kids) THEN <<>>
    ELSE tostring(kids[i]) \o TostringKids(kids, i + 1)
\* ET.tostring(elem, encoding="unicode"): the element, its attributes, its
\* content and its tail.  The tag and each class token count as one item.
tostring(elem) ==
    LET attrs == (IF elem.cls = None THEN <<>>
                  ELSE <<" class=\"">>
                       \o JoinWith(<<" ">>, [i \in 1..Len(elem.cls) |-> <<elem.cls[i]>>])
                       \o <<"\"">>)
                 \o (IF elem.title = None THEN <<>>
                     ELSE <<" title=\"">> \o elem.title \o <<"\"">>)
        inner == (IF Truthy(elem.text) THEN elem.text ELSE <<>>)
                 \o TostringKids(elem.kids, 1)
    IN  <<"<", elem.tag>> \o attrs
        \o (IF inner = <<>> THEN <<" />">>
            ELSE <<">">> \o inner \o <<"</", elem.tag, ">">>)
        \o (IF Truthy(elem.tail) THEN elem.tail ELSE <<>>)

\* ET.tostring(elem, encoding="unicode")[:300]
Snippet(elem) ==
    LET ser == tostring(elem) IN
    SubSeq(ser, 1, IF Len(ser) < SNIPPET_LIMIT THEN Len(ser) ELSE SNIPPET_LIMIT)

\* Variant of TrackTag: the last occurrence replaces the stored value.
TrackTagOverwrite(tags, file, elem) ==
    IF elem.tag \notin KNOWN_TAGS
    THEN (elem.tag :> <<file, Snippet(elem)>>) @@ tags
    ELSE tags

\* parse.py:248-252
TrackTag(tags, file, elem) ==
    IF elem.tag \notin KNOWN_TAGS /\ elem.tag \notin DOMAIN tags
    THEN tags @@ (elem.tag :> <<file, Snippet(elem)>>)
    ELSE tags

\* parse.py:254-257
RECURSIVE TrackClasses(_, _, _, _)
TrackClasses(classes, file, elem, i) ==
    IF i > Len(get_class(elem)) THEN classes
    ELSE LET cls == get_class(elem)[i] IN
         TrackClasses(
            IF /\ cls \notin HANDLED_CLASSES
               /\ ~StartsWithTg(cls)
               /\ cls \notin DOMAIN classes
            THEN classes @@ (cls :> <<file, Snippet(elem)>>)
            ELSE classes,
            file, elem, i + 1)

\* track_element(elem) on the tracker t = [tags, classes], with
\* _current_source_file = file.
track_element(t, file, elem) ==
    [tags    |-> TrackTag(t.tags, file, elem),
     classes |-> TrackClasses(t.classes, file, elem, 1)]

\* track_element applied to each element of a sequence, in order.
RECURSIVE TrackAll(_, _, _)
TrackAll(t, file, elems) ==
    IF elems = <<>> THEN t
    ELSE TrackAll(track_element(t, file, Head(elems)), file, Tail(elems))

-----------------------------------------------------------------------------
(* format_fraction, parse.py:260-287 *)

\* The loop of parse.py:265-274: nd = <<numerator, denominator>>.
RECURSIVE FractionLoop(_, _, _)
FractionLoop(kids, i, nd) ==
    IF i > Len(kids) THEN nd
    ELSE LET classes == get_class(kids[i])
             digits  == OnlyDigits(itertext(kids[i]))
         IN  FractionLoop(kids, i + 1,
                IF In("nu", classes) THEN <<digits, nd[2]>>
                ELSE IF In("dn", classes) THEN <<nd[1], digits>>
                ELSE nd)

\* Variant of FractionFallback: the two code tables exchanged.
FractionFallbackSwapped(numerator, denominator) ==
    ToSubscript(numerator) \o <<FRACTION_SLASH>> \o ToSuperscript(denominator)

\* parse.py:284-287
FractionFallback(numerator, denominator) ==
    ToSuperscript(numerator) \o <<FRACTION_SLASH>> \o ToSubscript(denominator)

\* Variant of format_fraction: the ValueError of int() not caught.
format_fraction_uncaught(elem) ==
    LET nd == FractionLoop(elem.kids, 1, <<<<>>, <<>>>>) IN
    IF IntRaisesValueError(nd[1]) \/ IntRaisesValueError(nd[2]) THEN Raise
    ELSE IF <<int(nd[1]), int(nd[2])>> \in DOMAIN UNICODE_FRACTIONS
         THEN <<UNICODE_FRACTIONS[<<int(nd[1]), int(nd[2])>>]>>
         ELSE FractionFallback(nd[1], nd[2])

format_fraction(elem) ==
    LET nd          == FractionLoop(elem.kids, 1, <<<<>>, <<>>>>)
        numerator   == nd[1]
        denominator == nd[2]
    IN  IF IntRaisesValueError(numerator) \/ IntRaisesValueError(denominator)
        THEN FractionFallback(numerator, denominator)       \* except ValueError
        ELSE LET key == <<int(numerator), int(denominator)>> IN
             IF key \in DOMAIN UNICODE_FRACTIONS
             THEN <<UNICODE_FRACTIONS[key]>>
             ELSE FractionFallback(numerator, denominator)

-----------------------------------------------------------------------------
(* format_inline_content, parse.py:290-463 *)

\* Variant of SkipTags: the part-of-speech wrapper not among the markers.
SkipTagsNoPos == {D_PRN, D_DEF}

\* parse.py:307-311
SkipTags == {D_PRN, D_DEF, D_POS}

\* Variant of Rule: the bold test placed before the ex test.
RuleExAfterBold(child) ==
    LET classes == get_class(child) IN
    IF child.tag \in SkipTags THEN "skip"
    ELSE IF In("bold", classes) THEN "bold"
    ELSE IF In("ex", classes) THEN "ex"
    ELSE IF In("f", classes) THEN "f"
    ELSE IF In("ge", classes) THEN "ge"
    ELSE IF In("sy", classes) THEN "sy"
    ELSE IF In("tx", classes) THEN "tx"
    ELSE IF In("sup", classes) THEN "sup"
    ELSE IF In("ty_hom", classes) THEN "ty_hom"
    ELSE IF In("subEnt", classes) THEN "subEnt"
    ELSE IF In("reg", classes) THEN "reg"
    ELSE IF In("ff", classes) THEN "ff"
    ELSE IF In("v", classes) THEN "v"
    ELSE IF In("lbl", classes) THEN "lbl"
    ELSE IF In("gg", classes) THEN "gg"
    ELSE IF In("frac", classes) THEN "frac"
    ELSE IF In("nu", classes) \/ In("dn", classes) THEN "nu_dn"
    ELSE IF child.tag = "a" THEN "a"
    ELSE "default"

\* The branch of the if/elif chain of parse.py:307-453 that the child takes.
Rule(child) ==
    LET classes == get_class(child) IN
    IF child.tag \in SkipTags THEN "skip"
    ELSE IF In("ex", classes) THEN "ex"
    ELSE IF In("bold", classes) THEN "bold"
    ELSE IF In("f", classes) THEN "f"
    ELSE IF In("ge", classes) THEN "ge"
    ELSE IF In("sy", classes) THEN "sy"
    ELSE IF In("tx", classes) THEN "tx"
    ELSE IF In("sup", classes) THEN "sup"
    ELSE IF In("ty_hom", classes) THEN "ty_hom"
    ELSE IF In("subEnt", classes) THEN "subEnt"
    ELSE IF In("reg", classes) THEN "reg"
    ELSE IF In("ff", classes) THEN "ff"
    ELSE IF In("v", classes) THEN "v"
    ELSE IF In("lbl", classes) THEN "lbl"
    ELSE IF In("gg", classes) THEN "gg"
    ELSE IF In("frac", classes) THEN "frac"
    ELSE IF In("nu", classes) \/ In("dn", classes) THEN "nu_dn"
    ELSE IF child.tag = "a" THEN "a"
    ELSE "default"

ItalicRules == {"ex", "ge", "sy", "reg"}
BoldRules == {"bold", "f", "tx", "ff", "v"}
ScriptRules == {"sup", "ty_hom", "subEnt"}
\* The rules whose branch calls format_inline_content(child).
RecursingRules == ItalicRules \cup BoldRules \cup {"lbl", "default"}

\* Variant of TextPiece: elem.text appended without the test of parse.py:298.
TextPieceUnguarded(elem) == <<elem.text>>

\* parse.py:298-299: if elem.text: result.append(elem.text)
TextPiece(elem) == IF Truthy(elem.text) THEN <<elem.text>> ELSE <<>>

\* Variant of TailPiece: the tail never appended.
TailPieceDropped(child) == <<>>

\* parse.py:460-461 (and 312-313): if child.tail: result.append(child.tail)
TailPiece(child) == IF Truthy(child.tail) THEN <<child.tail>> ELSE <<>>

\* parse.py:456-457
BlkPiece(child) == IF In("x_blk", get_class(child)) THEN <<<<"\n">>>> ELSE <<>>

\* text = normalize_whitespace(inner); if text: result.append(mark text mark)
Styled(mark, inner) ==
    IF inner = Raise THEN <<Raise>>
    ELSE LET text == normalize_whitespace(inner) IN
         IF text # <<>> THEN <<mark \o text \o mark>> ELSE <<>>

\* result[-1].endswith((" ", "\n", "\t"))
EndsWithBlank(s) == s # <<>> /\ s[Len(s)] \in {" ", "\n", "\t"}

\* The sup, ty_hom and subEnt branches, parse.py:354-387: the new result list.
ScriptAttach(rule, result, child) ==
    LET n       == Len(result)
        trimmed == IF n > 0 /\ EndsWithBlank(result[n])
                   THEN [result EXCEPT ![n] = rstrip(@)]
                   ELSE result
        text    == normalize_whitespace(get_all_text(child))
        script  == IF rule = "subEnt" THEN ToSubscript(text)
                   ELSE ToSuperscript(text)
    IN  trimmed \o <<script>>
        \o (IF Truthy(child.tail) THEN <<lstrip(child.tail)>> ELSE <<>>)

\* The word text and the homograph number of a link, parse.py:430-437:
\* wh = <<word_text, hom_num>>.
RECURSIVE LinkLoop(_, _, _)
LinkLoop(kids, i, wh) ==
    IF i > Len(kids) THEN wh
    ELSE LinkLoop(kids, i + 1,
            IF has_class(kids[i], "ty_hom")
            THEN <<wh[1], strip(get_all_text(kids[i]))>>
            ELSE <<wh[1] \o get_all_text(kids[i]), wh[2]>>)

LinkTitle(child) == IF child.title = None THEN <<>> ELSE child.title

LinkWordText(child) ==
    normalize_whitespace(
        LinkLoop(child.kids, 1,
                 <<strip(IF Truthy(child.text) THEN child.text ELSE <<>>), <<>>>>)[1])

LinkHomNum(child) ==
    LinkLoop(child.kids, 1,
             <<strip(IF Truthy(child.text) THEN child.text ELSE <<>>), <<>>>>)[2]

\* Variant of LinkFilename: the homograph number left out of the target.
LinkFilenameNoHomograph(title, hom_num) == title \o <<".", "m", "d">>

\* parse.py:442 and 445
LinkFilename(title, hom_num) ==
    IF hom_num # <<>>
    THEN title \o <<"_">> \o hom_num \o <<".", "m", "d">>
    ELSE title \o <<".", "m", "d">>

\* parse.py:439-449: what the link branch appends.
LinkPieces(child) ==
    LET title     == LinkTitle(child)
        word_text == LinkWordText(child)
        hom_num   == LinkHomNum(child)
        link_text == IF hom_num # <<>> THEN word_text \o ToSuperscript(hom_num)
                     ELSE word_text
        filename  == LinkFilename(title, hom_num)
    IN  IF title # <<>> /\ link_text # <<>>
        THEN << <<"[">> \o link_text \o <<"]", "(">> \o filename \o <<")">> >>
        ELSE IF link_text # <<>> THEN <<link_text>>
        ELSE <<>>

RECURSIVE format_inline_content(_)
RECURSIVE InlineLoop(_, _, _)
\* What the branch of the child appends to result (rules without `continue`).
RulePieces(rule, child) ==
    IF rule \in ItalicRules THEN Styled(<<"*">>, format_inline_content(child))
    ELSE IF rule \in BoldRules THEN Styled(<<"*", "*">>, format_inline_content(child))
    ELSE IF rule = "lbl"
         THEN LET inner == format_inline_content(child) IN
              IF inner = Raise THEN <<Raise>> ELSE <<normalize_whitespace(inner)>>
    ELSE IF rule = "gg"
         THEN LET text == normalize_whitespace(get_all_text(child)) IN
              IF text # <<>> THEN <<text>> ELSE <<>>
    ELSE IF rule = "frac" THEN <<format_fraction(child)>>
    ELSE IF rule = "nu_dn" THEN <<>>
    ELSE IF rule = "a" THEN LinkPieces(child)
    ELSE <<format_inline_content(child)>>

\* One turn of the loop of parse.py:302-461 for a child that takes the
\* branch `rule`: the result list after it.
ApplyRule(rule, result, child) ==
    IF rule = "skip" THEN result \o TailPiece(child)
    ELSE IF rule \in ScriptRules THEN ScriptAttach(rule, result, child)
    ELSE result \o RulePieces(rule, child) \o BlkPiece(child) \o TailPiece(child)

\* The loop of parse.py:302-461 from child i on; result is the list so far.
InlineLoop(elem, i, result) ==
    IF i > Len(elem.kids) THEN result
    ELSE InlineLoop(elem, i + 1, ApplyRule(Rule(elem.kids[i]), result, elem.kids[i]))

format_inline_content(elem) == Join(InlineLoop(elem, 1, TextPiece(elem)))

\* The elements format_inline_content(elem) passes to track_element, in
\* call order (parse.py:303, and the recursive calls).
RECURSIVE InlineTracked(_)
RECURSIVE InlineTrackedKids(_, _)
InlineTrackedKids(kids, i) ==
    IF i > Len(kids) THEN <<>>
    ELSE <<kids[i]>>
         \o (IF Rule(kids[i]) \in RecursingRules THEN InlineTracked(kids[i]) ELSE <<>>)
         \o InlineTrackedKids(kids, i + 1)
InlineTracked(elem) == InlineTrackedKids(elem.kids, 1)

-----------------------------------------------------------------------------
(* The element trees the renderer is applied to *)

MaxKids == 2

E(tag, cls, title, text, tail, kids) ==
    [tag |-> tag, cls |-> cls, title |-> title, text |-> text, tail |-> tail,
     kids |-> kids]

\* All sequences over S of length at most n.
SeqsUpTo(S, n) == UNION {[1..k -> S] : k \in 0..n}

\* The class tokens that have a branch in format_inline_content.
RuleTokens ==
    {"ex", "bold", "f", "ge", "sy", "tx", "sup", "ty_hom", "subEnt", "reg",
     "ff", "v", "lbl", "gg", "frac", "nu", "dn"}

\* Handled classes without a branch: the passthrough wrappers.
PassthroughTokens == {"xr", "xrg", "xrlabelGroup", "xrlabel", "vg"}

\* Class tokens outside the vocabulary ("tg_xr" is exempt from tracking).
UnknownTokens == {"zz", "tg_xr"}

AllTokens == RuleTokens \cup PassthroughTokens \cup UnknownTokens \cup {"x_blk"}

\* "i" is a tag outside KNOWN_TAGS.
ChildTags == {"span", "a", "i", D_PRN}

\* Grandchildren: a homograph number, a numerator, a denominator, a nested
\* plain element with a tail, an unknown element holding only a blank.
Leaves ==
    {E("span", <<"ty_hom">>, None, <<" ", "1">>, None, <<>>),
     E("span", <<"nu">>, None, <<"1">>, None, <<>>),
     E("span", <<"dn">>, None, <<"2">>, <<" ">>, <<>>),
     E("span", None, None, <<"y">>, <<" ", "z">>, <<>>),
     E("i", <<"zz">>, None, <<" ">>, None, <<>>)}

\* Family 1: one child, every class attribute of at most two tokens.
ClassAttributes ==
    {None, <<>>} \cup {<<a>> : a \in AllTokens}
    \cup {<<a, b>> : a \in AllTokens, b \in AllTokens}

DispatchChildren ==
    {E(tag, cls, <<"T">>, <<"w">>, <<" ", "t">>, <<>>) :
        tag \in ChildTags, cls \in ClassAttributes}

\* Family 2: one child of each kind, with and without text, tail, title and
\* up to MaxKids children of its own.
ShapeClasses ==
    {None, <<"ex">>, <<"bold">>, <<"lbl">>, <<"gg">>, <<"frac">>, <<"sup">>,
     <<"xr">>, <<"zz">>, <<"vg", "x_blk">>}

ShapeChildren ==
    {E(tag, cls, title, text, tail, kids) :
        tag \in {"span", "a", "i"}, cls \in ShapeClasses,
        title \in {None, <<"T">>}, text \in {None, <<"w", " ">>},
        tail \in {None, <<" ", "t">>}, kids \in SeqsUpTo(Leaves, MaxKids)}

\* Family 3: a superscript or subscript marker after up to one sibling.
ScriptChildren ==
    {E("span", <<cls>>, None, text, tail, <<>>) :
        cls \in {"sup", "ty_hom", "subEnt"},
        text \in {<<"2">>, <<" ", "2", " ">>},
        tail \in {None, <<" ", "y">>}}

BeforeScript ==
    {E("span", <<"xr">>, None, <<" ">>, None, <<>>),
     E("span", <<"xr">>, None, None, <<" ">>, <<>>),
     E("span", <<"xr">>, None, <<"\n">>, <<"\t">>, <<>>),
     E("i", None, None, None, <<" ">>, <<>>),
     E("span", <<"lbl">>, None, None, None, <<>>),
     E("span", <<"bold">>, None, <<"x">>, <<" ">>, <<>>),
     E("span", <<"x_blk">>, None, <<"x">>, <<" ">>, <<>>),
     E(D_PRN, None, None, <<"p">>, <<" ">>, <<>>)}

RootTexts == {None, <<"x">>, <<"x", " ">>, <<"x", "\n", "\t">>}

\* Family 4: a child with one of the three marker tags, with and without
\* class, text, tail and a child of its own.
MarkerChildren ==
    {E(tag, cls, None, text, tail, kids) :
        tag \in {D_PRN, D_DEF, D_POS},
        cls \in {None, <<"bold">>, <<"sup">>, <<"zz", "x_blk">>},
        text \in {None, <<"w">>}, tail \in {None, <<" ", "t">>},
        kids \in SeqsUpTo(Leaves, 1)}

Root(text, kids) == E("span", None, None, text, None, kids)

InlineInputs ==
    {Root(<<"r", " ">>, <<c>>) : c \in DispatchChildren}
    \cup {Root(text, <<c>>) : text \in {None, <<"r", " ">>}, c \in ShapeChildren}
    \cup {Root(text, <<s>>) : text \in RootTexts, s \in ScriptChildren}
    \cup {Root(text, <<b, s>>) :
            text \in RootTexts, b \in BeforeScript, s \in ScriptChildren}
    \cup {Root(text, <<c>>) : text \in {None, <<"r", " ">>}, c \in MarkerChildren}

-----------------------------------------------------------------------------
(* Specification: format_inline_content applied to one element tree *)

EmptyTracker == [tags |-> <<>>, classes |-> <<>>]

\* The name of a path is <<stem, suffix>>.
InitCommon ==
    /\ phase = "ready"
    /\ output = <<>>
    /\ previous = <<>>
    /\ unhandled_tags = <<>>
    /\ unhandled_classes = <<>>
    /\ current_source_file = <<"entry", ".xml">>
    /\ calls = <<>>
    /\ xml_files = <<>>
    /\ idx = 0
    /\ count = 0
    /\ log = <<>>
    /\ written = {}

InitInline == input \in InlineInputs /\ InitCommon

\* A call format_inline_content(input): its result, and the tracker updated
\* by every track_element call it makes.
FormatInline ==
    /\ phase = "ready"
    /\ phase' = "done"
    /\ output' = format_inline_content(input)
    /\ LET tracked == InlineTracked(input)
           t == TrackAll([tags |-> unhandled_tags, classes |-> unhandled_classes],
                         current_source_file, tracked)
       IN  /\ unhandled_tags' = t.tags
           /\ unhandled_classes' = t.classes
           /\ calls' = calls \o [i \in 1..Len(tracked) |->
                                    <<current_source_file, tracked[i]>>]
    /\ UNCHANGED <<input, previous, current_source_file, directoryVars>>

NextInline == FormatInline

SpecInline == InitInline /\ [][NextInline]_vars

-----------------------------------------------------------------------------
(* Specification: format_fraction applied to one fraction element *)

\* The texts of a numerator or denominator child: digits, no digit at all,
\* a leading zero, two digits, surrounding blanks.
PartTexts ==
    {None, <<"x">>, <<"1">>, <<"2">>, <<"3">>, <<"5">>, <<"7">>, <<"8">>,
     <<"0", "1">>, <<"1", "0">>, <<" ", "4", " ">>}

\* A nested decorative slash element inside the numerator.
SlashKid == E("span", <<"sl">>, None, <<"/">>, None, <<>>)

FractionInputs ==
    {E("span", <<"frac">>, None, None, None,
       <<E("span", <<"nu">>, None, n, None, <<>>),
         E("span", <<"dn">>, None, d, None, <<>>)>>) :
        n \in PartTexts, d \in PartTexts}
    \cup {E("span", <<"frac">>, None, None, None,
            <<E("span", <<"gp", "dn">>, None, d, <<" ">>, <<>>),
              E("span", <<"nu">>, None, n, None, <<SlashKid>>)>>) :
            n \in PartTexts, d \in PartTexts}
    \cup {E("span", <<"frac">>, None, None, None,
            <<E("span", <<part>>, None, t, None, <<>>)>>) :
            part \in {"nu", "dn", "gp"}, t \in PartTexts}
    \cup {E("span", <<"frac">>, None, None, None, <<>>)}

InitFraction == input \in FractionInputs /\ InitCommon

FormatFraction ==
    /\ phase = "ready"
    /\ phase' = "done"
    /\ output' = format_fraction(input)
    /\ UNCHANGED <<input, previous, trackerVars, directoryVars>>

NextFraction == FormatFraction

SpecFraction == InitFraction /\ [][NextFraction]_vars

-----------------------------------------------------------------------------
(* clean_punctuation, parse.py:218-243 *)

Punctuation == {".", ",", ";", ":", "!", "?"}

\* [a-z], for the letters of the model.
Lowercase == {"a", "b", "m", "d"}

\* The number of whitespace characters s starts with.
BlankRun(s) == Len(s) - Len(lstrip(s))

From(s, i) == SubSeq(s, i, Len(s))

\* Variant of SubBeforePunct: \s in place of \s+.
RECURSIVE SubBeforePunctOneBlank(_)
SubBeforePunctOneBlank(s) ==
    IF s = <<>> THEN <<>>
    ELSE IF Head(s) \in Whitespace /\ Len(s) > 1 /\ s[2] \in Punctuation
         THEN <<s[2]>> \o SubBeforePunctOneBlank(From(s, 3))
         ELSE <<Head(s)>> \o SubBeforePunctOneBlank(Tail(s))

\* re.sub(r"\s+([.,;:!?])", r"\1", content)
RECURSIVE SubBeforePunct(_)
SubBeforePunct(s) ==
    IF s = <<>> THEN <<>>
    ELSE LET n == BlankRun(s) IN
         IF n > 0 /\ n < Len(s) /\ s[n + 1] \in Punctuation
         THEN <<s[n + 1]>> \o SubBeforePunct(From(s, n + 2))
         ELSE IF n > 0 THEN SubSeq(s, 1, n) \o SubBeforePunct(From(s, n + 1))
         ELSE <<Head(s)>> \o SubBeforePunct(Tail(s))

\* The lookahead [a-z]{2,4}\) at the characters after position i.
ExtensionAhead(s, i) ==
    \E k \in 2..4 :
        /\ i + k + 1 <= Len(s)
        /\ \A j \in 1..k : s[i + j] \in Lowercase
        /\ s[i + k + 1] = ")"

\* re.sub(r"([.,;:!?])(?![a-z]{2,4}\))(?=[^\s\d.,;:!?])", r"\1 ", content)
RECURSIVE SubAfterPunct(_, _)
SubAfterPunct(s, i) ==
    IF i > Len(s) THEN <<>>
    ELSE <<s[i]>>
         \o (IF /\ s[i] \in Punctuation
                /\ ~ExtensionAhead(s, i)
                /\ i < Len(s)
                /\ s[i + 1] \notin (Whitespace \cup Digits \cup Punctuation)
             THEN <<" ">> ELSE <<>>)
         \o SubAfterPunct(s, i + 1)

\* re.sub(r"\s*\|\s*", " | ", content)
RECURSIVE SubPipe(_)
SubPipe(s) ==
    IF s = <<>> THEN <<>>
    ELSE LET n == BlankRun(s) IN
         IF n < Len(s) /\ s[n + 1] = "|"
         THEN <<" ", "|", " ">> \o SubPipe(lstrip(From(s, n + 2)))
         ELSE IF n > 0 THEN SubSeq(s, 1, n) \o SubPipe(From(s, n + 1))
         ELSE <<Head(s)>> \o SubPipe(Tail(s))

\* re.sub(r" +", " ", content)
RECURSIVE DropSpaces(_)
DropSpaces(s) == IF s # <<>> /\ Head(s) = " " THEN DropSpaces(Tail(s)) ELSE s
RECURSIVE SubSpaces(_)
SubSpaces(s) ==
    IF s = <<>> THEN <<>>
    ELSE IF Head(s) = " " THEN <<" ">> \o SubSpaces(DropSpaces(s))
    ELSE <<Head(s)>> \o SubSpaces(Tail(s))

\* re.sub(r"'\s+", "'", content)
RECURSIVE SubAfterQuote(_)
SubAfterQuote(s) ==
    IF s = <<>> THEN <<>>
    ELSE IF Head(s) = "'" THEN <<"'">> \o SubAfterQuote(lstrip(Tail(s)))
    ELSE <<Head(s)>> \o SubAfterQuote(Tail(s))

\* re.sub(r"\s+'", "'", content)
RECURSIVE SubBeforeQuote(_)
SubBeforeQuote(s) ==
    IF s = <<>> THEN <<>>
    ELSE LET n == BlankRun(s) IN
         IF n > 0 /\ n < Len(s) /\ s[n + 1] = "'"
         THEN <<"'">> \o SubBeforeQuote(From(s, n + 2))
         ELSE IF n > 0 THEN SubSeq(s, 1, n) \o SubBeforeQuote(From(s, n + 1))
         ELSE <<Head(s)>> \o SubBeforeQuote(Tail(s))

\* text.split("\n")
RECURSIVE SplitLines(_)
SplitLines(s) ==
    IF \A i \in 1..Len(s) : s[i] # "\n" THEN <<s>>
    ELSE LET n == CHOOSE k \in 1..Len(s) :
                    s[k] = "\n" /\ \A j \in 1..(k - 1) : s[j] # "\n"
         IN  <<SubSeq(s, 1, n - 1)>> \o SplitLines(From(s, n + 1))

\* Variant of CleanLine: the whole line stripped, the indentation not put
\* back.
CleanLineNoIndent(line) ==
    strip(SubBeforeQuote(SubAfterQuote(SubSpaces(SubPipe(
        SubAfterPunct(SubBeforePunct(lstrip(line)), 1))))))

\* The body of the loop, parse.py:225-242.
CleanLine(line) ==
    LET leading == BlankRun(line)
        indent  == SubSeq(line, 1, leading)
        content == From(line, leading + 1)
        c1 == SubBeforePunct(content)
        c2 == SubAfterPunct(c1, 1)
        c3 == SubPipe(c2)
        c4 == SubSpaces(c3)
        c5 == SubAfterQuote(c4)
        c6 == SubBeforeQuote(c5)
    IN  indent \o strip(c6)

clean_punctuation(text) ==
    LET lines == SplitLines(text) IN
    JoinWith(<<"\n">>, [i \in 1..Len(lines) |-> CleanLine(lines[i])])

-----------------------------------------------------------------------------
(* Specification: the cleanup pass applied once, then to its own result *)

MaxTextLen == 4

PunctAlphabet == {"a", "1", " ", "\t", "\n", ".", "|", "'", ")"}

InitPunct == input \in SeqsUpTo(PunctAlphabet, MaxTextLen) /\ InitCommon

\* result = clean_punctuation(text)
CleanOnce ==
    /\ phase = "ready"
    /\ phase' = "once"
    /\ output' = clean_punctuation(input)
    /\ UNCHANGED <<input, previous, trackerVars, directoryVars>>

\* The result of the first pass is passed to clean_punctuation again.
CleanTwice ==
    /\ phase = "once"
    /\ phase' = "twice"
    /\ previous' = output
    /\ output' = clean_punctuation(output)
    /\ UNCHANGED <<input, trackerVars, directoryVars>>

NextPunct == CleanOnce \/ CleanTwice

SpecPunct == InitPunct /\ [][NextPunct]_vars

-----------------------------------------------------------------------------
(* make_filename, split.py:23-35 *)

\* Variant of HostileChars: the pipe left out of the character class.
HostileCharsNoPipe == {"/", "\\", ":", "*", "?", "\"", "<", ">"}

\* The character class of split.py:31.
HostileChars == {"/", "\\", ":", "*", "?", "\"", "<", ">", "|"}

\* re.sub(r'[/\\:*?"<>|]', '_', s)
Sanitize(s) == [i \in 1..Len(s) |-> IF s[i] \in HostileChars THEN "_" ELSE s[i]]

\* entry = [title, homograph, content]; homograph is None or a str of digits.
make_filename(entry) ==
    LET sanitized_title == Sanitize(strip(entry.title)) IN
    IF Truthy(entry.homograph)
    THEN sanitized_title \o <<"_">> \o entry.homograph \o <<".", "x", "m", "l">>
    ELSE sanitized_title \o <<".", "x", "m", "l">>

-----------------------------------------------------------------------------
(* Specification: make_filename applied to one entry *)

MaxTitleLen == 3

TitleAlphabet ==
    {"/", "\\", ":", "*", "?", "\"", "<", ">", "|", "a", " ", "_"}

\* The values extract_homograph returns (split.py:44-54): None or \d+.
Homographs == {None, <<"1">>, <<"1", "2">>}

Entries ==
    {[title |-> t, homograph |-> h, content |-> <<>>] :
        t \in SeqsUpTo(TitleAlphabet, MaxTitleLen), h \in Homographs}

InitFilename == input \in Entries /\ InitCommon

MakeFilename ==
    /\ phase = "ready"
    /\ phase' = "done"
    /\ output' = make_filename(input)
    /\ UNCHANGED <<input, previous, trackerVars, directoryVars>>

NextFilename == MakeFilename

SpecFilename == InitFilename /\ [][NextFilename]_vars

-----------------------------------------------------------------------------
(* Specification: track_element called on elements of several source files *)

MaxCalls == 3

SourceFiles == {<<"a", ".xml">>, <<"b", ".xml">>}

\* Elements with unknown and known tags and classes, some sharing a key.
TrackedElements ==
    {E("i", <<"zz">>, None, <<"x">>, None, <<>>),
     E("i", <<"yy", "zz">>, None, <<"y">>, None, <<>>),
     E("span", <<"yy", "yy">>, None, None, <<" ">>, <<>>),
     E("b", None, None, <<"x">>, None, <<>>),
     E("b", <<"tg_xr", "ex">>, None, None, None, <<>>),
     E("span", <<"ex", "xr">>, None, <<"x">>, None, <<>>)}

\* parse.py:16-20: both dictionaries empty, _current_source_file = "".
InitTracker ==
    /\ phase = "ready"
    /\ input = <<>>
    /\ output = <<>>
    /\ previous = <<>>
    /\ unhandled_tags = <<>>
    /\ unhandled_classes = <<>>
    /\ current_source_file = <<"", "">>
    /\ calls = <<>>
    /\ xml_files = <<>>
    /\ idx = 0
    /\ count = 0
    /\ log = <<>>
    /\ written = {}

\* process_file, parse.py:1084-1085: _current_source_file = xml_path.name
EnterFile(f) ==
    /\ current_source_file # f
    /\ current_source_file' = f
    /\ UNCHANGED <<phase, input, output, previous, unhandled_tags,
                   unhandled_classes, calls, directoryVars>>

\* One call track_element(elem) made while the current file is rendered.
TrackElement(elem) ==
    /\ Len(calls) < MaxCalls
    /\ LET t == track_element([tags |-> unhandled_tags, classes |-> unhandled_classes],
                              current_source_file, elem)
       IN  /\ unhandled_tags' = t.tags
           /\ unhandled_classes' = t.classes
    /\ calls' = Append(calls, <<current_source_file, elem>>)
    /\ UNCHANGED <<phase, input, output, previous, current_source_file,
                   directoryVars>>

NextTracker ==
    \/ \E f \in SourceFiles : EnterFile(f)
    \/ \E elem \in TrackedElements : TrackElement(elem)

SpecTracker == InitTracker /\ [][NextTracker]_vars

-----------------------------------------------------------------------------
(* process_file and process_directory, parse.py:1082-1113 *)

MaxFiles == 3

\* File stems in sorted order; a path name is <<stem, suffix>>.
StemOrder == <<"a", "b", "c", "d", "e", "f">>

Stems == {StemOrder[i] : i \in 1..MaxFiles}

StemIndex(stem) == CHOOSE i \in 1..Len(StemOrder) : StemOrder[i] = stem

\* xml_path.with_suffix(".md")
with_suffix_md(path) == <<path[1], ".md">>

\* sorted(names): the names in ascending order (of stem, the suffixes equal).
RECURSIVE sorted(_)
sorted(names) ==
    IF names = {} THEN <<>>
    ELSE LET least == CHOOSE n \in names :
                        \A m \in names : StemIndex(n[1]) <= StemIndex(m[1])
         IN  <<least>> \o sorted(names \ {least})

\* dir_path.glob("*.xml")
glob_xml(dir) == {n \in DOMAIN dir : n[2] = ".xml"}

\* What a file holds: text that is no well-formed XML; bytes that are no
\* UTF-8 text; an entry (its root element) that renders.
Malformed == [kind |-> "malformed", root |-> None]
Undecodable == [kind |-> "undecodable", root |-> None]
EntryRoots ==
    {E(D_ENTRY, <<"entry">>, None, None, None,
       <<E("span", <<"zz">>, None, <<"x">>, None, <<>>)>>),
     E("entry", <<"entry", "zz">>, None, None, None,
       <<E("i", None, None, <<"y">>, None, <<>>)>>)}
FileContents ==
    {Malformed, Undecodable} \cup {[kind |-> "entry", root |-> r] : r \in EntryRoots}

\* The directories: every stem absent, or present as a .xml file with some
\* content; a file that is not *.xml may lie beside them.
Directories ==
    UNION {
        {[n \in ({<<stem, ".xml">> : stem \in present} \cup other) |->
            IF n[2] = ".xml" THEN c[n[1]] ELSE Malformed] :
            c \in [present -> FileContents],
            other \in {{}, {<<"notes", ".txt">>}}} :
        present \in SUBSET Stems}

\* The elements xml_to_markdown(root) passes to track_element for an entry
\* without sense group and without special sections: the root
\* (parse.py:1032), then each direct child (parse.py:1055-1056).
EntryTracked(root) == <<root>> \o root.kids

\* Variant of NextIndexAfterError: the loop left at the first failure.
NextIndexAbort(i, n) == n

\* The loop of parse.py:1103 goes on with the next file after an except
\* clause (parse.py:1108-1111).
NextIndexAfterError(i, n) == i + 1

InitDirectory ==
    /\ phase = "ready"
    /\ input \in Directories
    /\ output = <<>>
    /\ previous = <<>>
    /\ unhandled_tags = <<>>
    /\ unhandled_classes = <<>>
    /\ current_source_file = <<"", "">>
    /\ calls = <<>>
    /\ xml_files = <<>>
    /\ idx = 0
    /\ count = 0
    /\ log = <<>>
    /\ written = {}

\* parse.py:1100-1101
ListFiles ==
    /\ phase = "ready"
    /\ phase' = "loop"
    /\ xml_files' = sorted(glob_xml(input))
    /\ count' = 0
    /\ idx' = 0
    /\ UNCHANGED <<input, output, previous, trackerVars, log, written>>

\* One turn of the loop in which process_file returns: the entry is parsed
\* and rendered, the .md file written, "Created" printed, count incremented.
ProcessFileOk ==
    /\ phase = "loop" /\ idx < Len(xml_files)
    /\ LET xml_path == xml_files[idx + 1]
           content  == input[xml_path]
           tracked  == EntryTracked(content.root)
           t == TrackAll([tags |-> unhandled_tags, classes |-> unhandled_classes],
                         xml_path, tracked)
       IN  /\ content.kind = "entry"
           /\ current_source_file' = xml_path
           /\ unhandled_tags' = t.tags
           /\ unhandled_classes' = t.classes
           /\ calls' = calls \o [i \in 1..Len(tracked) |-> <<xml_path, tracked[i]>>]
           /\ written' = written \cup {with_suffix_md(xml_path)}
           /\ log' = Append(log, <<"stdout", "Created", with_suffix_md(xml_path)>>)
    /\ count' = count + 1
    /\ idx' = idx + 1
    /\ UNCHANGED <<phase, input, output, previous, xml_files>>

\* One turn in which ET.fromstring raises ParseError (parse.py:1088, 1108).
ProcessFileParseError ==
    /\ phase = "loop" /\ idx < Len(xml_files)
    /\ LET xml_path == xml_files[idx + 1] IN
           /\ input[xml_path].kind = "malformed"
           /\ current_source_file' = xml_path
           /\ log' = Append(log, <<"stderr", "Error parsing", xml_path>>)
    /\ idx' = NextIndexAfterError(idx, Len(xml_files))
    /\ UNCHANGED <<phase, input, output, previous, unhandled_tags,
                   unhandled_classes, calls, xml_files, count, written>>

\* One turn in which read_text raises UnicodeDecodeError, an Exception
\* (parse.py:1087, 1110).
ProcessFileException ==
    /\ phase = "loop" /\ idx < Len(xml_files)
    /\ LET xml_path == xml_files[idx + 1] IN
           /\ input[xml_path].kind = "undecodable"
           /\ current_source_file' = xml_path
           /\ log' = Append(log, <<"stderr", "Error processing", xml_path>>)
    /\ idx' = NextIndexAfterError(idx, Len(xml_files))
    /\ UNCHANGED <<phase, input, output, previous, unhandled_tags,
                   unhandled_classes, calls, xml_files, count, written>>

\* parse.py:1113
ReturnCount ==
    /\ phase = "loop" /\ idx >= Len(xml_files)
    /\ phase' = "done"
    /\ output' = count
    /\ UNCHANGED <<input, previous, trackerVars, directoryVars>>

NextDirectory ==
    \/ ListFiles
    \/ ProcessFileOk
    \/ ProcessFileParseError
    \/ ProcessFileException
    \/ ReturnCount

SpecDirectory == InitDirectory /\ [][NextDirectory]_vars

-----------------------------------------------------------------------------
(* Properties of format_inline_content *)

IsStr(v) == v # Raise /\ v # None

OneChild(elem) == Len(elem.kids) = 1

PriorityOrder ==
    <<"ex", "bold", "f", "ge", "sy", "tx", "sup", "ty_hom", "subEnt", "reg",
      "ff", "v", "lbl", "gg", "frac", "nu_dn", "a", "default">>

Matches(rule, child) ==
    IF rule = "nu_dn" THEN has_class(child, "nu") \/ has_class(child, "dn")
    ELSE IF rule = "a" THEN child.tag = "a"
    ELSE IF rule = "default" THEN TRUE
    ELSE has_class(child, rule)

FirstMatch(child) ==
    PriorityOrder[
        CHOOSE i \in 1..Len(PriorityOrder) :
            /\ Matches(PriorityOrder[i], child)
            /\ \A j \in 1..(i - 1) : ~Matches(PriorityOrder[j], child)]

\* The result list when each child that is not a skipped structural marker
\* gets exactly the first rule of PriorityOrder that matches it.
RECURSIVE PriorityLoop(_, _, _)
PriorityLoop(elem, i, result) ==
    IF i > Len(elem.kids) THEN result
    ELSE LET child == elem.kids[i] IN
         PriorityLoop(elem, i + 1,
            ApplyRule(IF child.tag \in SkipTags THEN "skip" ELSE FirstMatch(child),
                      result, child))

Reversed(seq) == [i \in 1..Len(seq) |-> seq[Len(seq) + 1 - i]]

\* The element with the class tokens of each child in the opposite order.
ClassesReversed(elem) ==
    [elem EXCEPT !.kids =
        [i \in 1..Len(elem.kids) |->
            IF elem.kids[i].cls = None THEN elem.kids[i]
            ELSE [elem.kids[i] EXCEPT !.cls = Reversed(@)]]]

\* C2: a child that reaches the class dispatch gets exactly one rule, the
\* first that matches in the order ex, bold, f, ge, sy, tx, sup, ty_hom,
\* subEnt, reg, ff, v, lbl, gg, frac, nu/dn, hyperlink tag, default; the
\* result is the same whatever the order of the tokens in the class
\* attribute, and a child with both ex and bold is italic, never bold.
C2_FirstMatchingRule ==
    phase = "done" =>
        /\ output = Join(PriorityLoop(input, 1, TextPiece(input)))
        /\ output = format_inline_content(ClassesReversed(input))
        /\ (/\ OneChild(input)
            /\ input.text = <<"r", " ">>
            /\ input.kids[1].tag \notin SkipTags
            /\ has_class(input.kids[1], "ex")
            /\ has_class(input.kids[1], "bold")
            /\ input.kids[1].text = <<"w">>
            /\ input.kids[1].tail = <<" ", "t">>
            /\ input.kids[1].kids = <<>>)
           => output = <<"r", " ", "*", "w", "*", " ", "t">>

\* A child with class="bold ex" is rendered italic.
C2_Witness ==
    /\ phase = "done"
    /\ OneChild(input)
    /\ input.kids[1].tag = "span"
    /\ input.kids[1].cls = <<"bold", "ex">>
    /\ output = <<"r", " ", "*", "w", "*", " ", "t">>

\* The element with only its first n children.
Prefix(elem, n) == [elem EXCEPT !.kids = SubSeq(@, 1, n)]

\* The whitespace a string ends with.
TrailingBlanks(s) == SubSeq(s, Len(rstrip(s)) + 1, Len(s))

\* A child rendered by the superscript rule (sup or ty_hom) whose content is
\* the digit 2, possibly between blanks.
SuperscriptTwo(child) ==
    /\ child.tag \notin SkipTags
    /\ FirstMatch(child) \in {"sup", "ty_hom"}
    /\ normalize_whitespace(get_all_text(child)) = <<"2">>

\* C3: when the content emitted so far ends in a character x followed only by
\* whitespace of the source (of the parent's text, of preceding siblings'
\* text or tails, or inside the marker) and the next child is a superscript
\* marker holding the digit 2, the output has x directly followed by the
\* superscript two, with no whitespace between them.
C3_SuperscriptAttaches ==
    phase = "done" =>
        \A n \in 0..(Len(input.kids) - 1) :
            LET marker  == input.kids[n + 1]
                emitted == format_inline_content(Prefix(input, n))
                kept    == rstrip(emitted)
            IN  (/\ SuperscriptTwo(marker)
                 /\ n + 1 = Len(input.kids)
                 /\ kept # <<>>
                 /\ TrailingBlanks(emitted)
                        = TrailingBlanks(itertext(Prefix(input, n))))
                => /\ Len(output) > Len(kept)
                   /\ SubSeq(output, 1, Len(kept) + 1) = kept \o <<"^2">>

\* A child rendered by the hyperlink rule.
Hyperlink(child) == child.tag \notin SkipTags /\ FirstMatch(child) = "a"

\* A homograph-marked child with a number is present.
HasHomograph(child) ==
    /\ \E i \in 1..Len(child.kids) : has_class(child.kids[i], "ty_hom")
    /\ LinkHomNum(child) # <<>>

RootText(elem) == IF elem.text = None THEN <<>> ELSE elem.text

OwnLine(child) == IF has_class(child, "x_blk") THEN <<"\n">> ELSE <<>>

ChildTail(child) == IF child.tail = None THEN <<>> ELSE child.tail

MarkdownLink(text, target) ==
    <<"[">> \o text \o <<"]", "(">> \o target \o <<".", "m", "d", ")">>

\* C5 as stated: with target title T, display text D and homograph number h,
\* the hyperlink child gives [D](T.md) without homograph and
\* [D superscript(h)](T_h.md) with one, link syntax only when T and D are
\* non-empty, and otherwise D unlinked.
C5_LinkOnDisplayText ==
    (phase = "done" /\ OneChild(input) /\ Hyperlink(input.kids[1])) =>
        LET child == input.kids[1]
            T == LinkTitle(child)
            D == LinkWordText(child)
            h == LinkHomNum(child)
            piece == IF T # <<>> /\ D # <<>>
                     THEN IF HasHomograph(child)
                          THEN MarkdownLink(D \o ToSuperscript(h), T \o <<"_">> \o h)
                          ELSE MarkdownLink(D, T)
                     ELSE D
        IN  output = RootText(input) \o piece \o OwnLine(child) \o ChildTail(child)

\* C5: with target title T, display text D and homograph number h, let the
\* link text L be D followed by superscript(h) when a homograph-marked child
\* with a number is present, and D alone otherwise.  The hyperlink child
\* gives [L](T.md) without homograph and [L](T_h.md) with one, link syntax
\* only when T and L are non-empty, and otherwise L unlinked (nothing when L
\* is empty).
C5_LinkOnLinkText ==
    (phase = "done" /\ OneChild(input) /\ Hyperlink(input.kids[1])) =>
        LET child == input.kids[1]
            T == LinkTitle(child)
            D == LinkWordText(child)
            h == LinkHomNum(child)
            L == IF HasHomograph(child) THEN D \o ToSuperscript(h) ELSE D
            piece == IF T # <<>> /\ L # <<>>
                     THEN IF HasHomograph(child)
                          THEN MarkdownLink(L, T \o <<"_">> \o h)
                          ELSE MarkdownLink(L, T)
                     ELSE L
        IN  output = RootText(input) \o piece \o OwnLine(child) \o ChildTail(child)

\* A link with display text "w" to homograph 1 of the entry titled "T".
C5_Witness ==
    /\ phase = "done"
    /\ OneChild(input)
    /\ Hyperlink(input.kids[1])
    /\ input.kids[1].title = <<"T">>
    /\ input.kids[1].text = <<"w", " ">>
    /\ Len(input.kids[1].kids) = 1
    /\ has_class(input.kids[1].kids[1], "ty_hom")
    /\ input.kids[1].tail = None
    /\ output = <<"r", " ", "[", "w", "^1", "]", "(", "T", "_", "1", ".", "m", "d", ")">>

\* A child that matches no styling rule: each of its classes is a passthrough
\* wrapper or outside the vocabulary (neither registered nor the token of a
\* rule), and its tag is neither a skipped marker nor the hyperlink tag.
Unstyled(child) ==
    /\ child.tag \notin SkipTags \cup {"a"}
    /\ \A i \in 1..Len(get_class(child)) :
            \/ get_class(child)[i] \in PassthroughTokens
            \/ get_class(child)[i] \notin HANDLED_CLASSES \cup RuleTokens

-----------------------------------------------------------------------------
(* Properties of format_fraction *)

\* The position of the direct child of elem marked cls.
PartIndex(elem, cls) ==
    CHOOSE i \in 1..Len(elem.kids) : has_class(elem.kids[i], cls)

\* The digits in the text of the direct child of elem marked cls.
PartDigits(elem, cls) == OnlyDigits(itertext(elem.kids[PartIndex(elem, cls)]))

\* elem has exactly one direct child marked nu and one marked dn.
OneOfEach(elem) ==
    /\ Cardinality({i \in 1..Len(elem.kids) : has_class(elem.kids[i], "nu")}) = 1
    /\ Cardinality({i \in 1..Len(elem.kids) : has_class(elem.kids[i], "dn")}) = 1
    /\ PartIndex(elem, "nu") # PartIndex(elem, "dn")

\* C4: for a fraction with one numerator child and one denominator child, in
\* either order, format_fraction returns the single precomposed character
\* when the pair of numbers is in UNICODE_FRACTIONS, and otherwise the
\* superscript numerator digits, the fraction slash, the subscript
\* denominator digits.
C4_FractionForm ==
    (phase = "done" /\ OneOfEach(input)) =>
        LET n == PartDigits(input, "nu")
            d == PartDigits(input, "dn")
        IN  IF /\ n # <<>>
               /\ d # <<>>
               /\ <<int(n), int(d)>> \in DOMAIN UNICODE_FRACTIONS
            THEN output = <<UNICODE_FRACTIONS[<<int(n), int(d)>>]>>
            ELSE output = ToSuperscript(n) \o <<FRACTION_SLASH>> \o ToSubscript(d)

\* The denominator 7 comes before the numerator 5: no table entry.
C4_Witness ==
    /\ phase = "done"
    /\ OneOfEach(input)
    /\ PartIndex(input, "dn") < PartIndex(input, "nu")
    /\ PartDigits(input, "nu") = <<"5">>
    /\ PartDigits(input, "dn") = <<"7">>
    /\ output = <<"^5", "frasl", "_7">>

-----------------------------------------------------------------------------
(* Properties of clean_punctuation *)

\* C6: clean_punctuation is idempotent: applied to its own result it returns
\* that result.
C6_Idempotent == phase = "twice" => output = previous

\* "a .a" becomes "a. a", and stays so.
C6_Witness ==
    /\ phase = "twice"
    /\ input = <<"a", " ", ".", "a">>
    /\ previous = <<"a", ".", " ", "a">>
    /\ output = <<"a", ".", " ", "a">>

-----------------------------------------------------------------------------
(* Properties of make_filename *)

NineChars == {"/", "\\", ":", "*", "?", "\"", "<", ">", "|"}

\* C7: make_filename returns the trimmed title with each of / \ : * ? " < > |
\* replaced by _, then _ and the homograph number when there is one, then
\* .xml; none of the nine characters is in the result.
C7_Filename ==
    phase = "done" =>
        LET trimmed == strip(input.title)
            name    == [i \in 1..Len(trimmed) |->
                            IF trimmed[i] \in NineChars THEN "_" ELSE trimmed[i]]
            number  == IF input.homograph = None THEN <<>>
                       ELSE <<"_">> \o input.homograph
        IN  /\ output = name \o number \o <<".", "x", "m", "l">>
            /\ \A i \in 1..Len(output) : output[i] \notin NineChars

\* The title " a|" with homograph 1 gives "a__1.xml".
C7_Witness ==
    /\ phase = "done"
    /\ input.title = <<" ", "a", "|">>
    /\ input.homograph = <<"1">>
    /\ output = <<"a", "_", "_", "1", ".", "x", "m", "l">>

-----------------------------------------------------------------------------
(* Properties of the tracker *)

\* The tag keys and the class keys the element of a call carries: what is
\* outside the vocabulary (the tg_ family belongs to it).
TagKeys(elem) == {elem.tag} \ KNOWN_TAGS

ClassKeys(elem) ==
    {cls \in {get_class(elem)[i] : i \in 1..Len(get_class(elem))} :
        cls \notin HANDLED_CLASSES /\ ~StartsWithTg(cls)}

\* The first call whose element carries the tag, and the class.
FirstTagCall(tag) ==
    CHOOSE i \in 1..Len(calls) :
        /\ tag \in TagKeys(calls[i][2])
        /\ \A j \in 1..(i - 1) : tag \notin TagKeys(calls[j][2])

FirstClassCall(cls) ==
    CHOOSE i \in 1..Len(calls) :
        /\ cls \in ClassKeys(calls[i][2])
        /\ \A j \in 1..(i - 1) : cls \notin ClassKeys(calls[j][2])

\* The value a first write stores for call i: the file, the snippet.
Occurrence(i) == <<calls[i][1], Snippet(calls[i][2])>>

\* C8: after any sequence of track_element calls over any source files, the
\* tracker holds exactly the keys carried by a tracked element, each with the
\* source file and the snippet of the first tracked element that carried it:
\* no later occurrence replaces the value and no key is dropped.
C8_FirstWriteWins ==
    /\ DOMAIN unhandled_tags = UNION {TagKeys(calls[i][2]) : i \in 1..Len(calls)}
    /\ DOMAIN unhandled_classes
            = UNION {ClassKeys(calls[i][2]) : i \in 1..Len(calls)}
    /\ \A tag \in DOMAIN unhandled_tags :
            unhandled_tags[tag] = Occurrence(FirstTagCall(tag))
    /\ \A cls \in DOMAIN unhandled_classes :
            unhandled_classes[cls] = Occurrence(FirstClassCall(cls))

\* The unknown tag i is tracked in one file and again, on another element,
\* in another file.
C8_Witness ==
    /\ Len(calls) >= 2
    /\ calls[1][2].tag = "i"
    /\ calls[2][2].tag = "i"
    /\ calls[1][1] = <<"a", ".xml">>
    /\ calls[2][1] = <<"b", ".xml">>
    /\ calls[1][2] # calls[2][2]
    /\ unhandled_tags["i"] = Occurrence(1)

-----------------------------------------------------------------------------
(* Properties of process_directory *)

\* The file a line of the log is about.
Attempted(line) == <<line[3][1], ".xml">>

\* C10: process_directory attempts every *.xml file of the directory, once
\* each and in sorted name order, whatever the outcome of the files before
\* it, and returns the number of files whose processing succeeded.
C10_EveryFileAttempted ==
    phase = "done" =>
        LET names == {n \in DOMAIN input : n[2] = ".xml"}
            good  == {n \in names : input[n].kind = "entry"}
        IN  /\ Len(log) = Cardinality(names)
            /\ {Attempted(log[i]) : i \in 1..Len(log)} = names
            /\ \A i \in 1..Len(log) : \A j \in 1..Len(log) :
                    i < j => StemIndex(log[i][3][1]) < StemIndex(log[j][3][1])
            /\ \A i \in 1..Len(log) :
                    log[i][2] = "Created" <=> Attempted(log[i]) \in good
            /\ output = Cardinality(good)
            /\ written = {<<n[1], ".md">> : n \in good}

\* A malformed file, then an undecodable one, then an entry: the entry is
\* rendered and the count is 1.
C10_Witness ==
    /\ phase = "done"
    /\ Len(log) = 3
    /\ log[1][2] = "Error parsing"
    /\ log[2][2] = "Error processing"
    /\ log[3][2] = "Created"
    /\ output = 1

-----------------------------------------------------------------------------
(* Specification: process_file, parse.py:1082-1095, statement by statement *)

\* An entry whose rendering raises: an etymology nested deeper than the
\* interpreter's recursion limit (the nesting itself is left out).
Unrenderable ==
    [kind |-> "unrenderable",
     root |-> E(D_ENTRY, <<"entry">>, None, None, None,
                <<E("i", <<"etym">>, None, <<"x">>, None, <<>>)>>)]

\* process_file is called on a file of some name holding some content,
\* after the .md files of files before it in the directory were written.
InitFile ==
    /\ phase = "ready"
    /\ \E stem \in Stems :
       \E c \in FileContents \cup {Unrenderable} :
       \E b \in SUBSET {<<t, ".md">> :
                            t \in {u \in Stems : StemIndex(u) < StemIndex(stem)}} :
            /\ input = [name |-> <<stem, ".xml">>, content |-> c]
            /\ written = b
    /\ output = <<>>
    /\ previous = <<>>
    /\ unhandled_tags = <<>>
    /\ unhandled_classes = <<>>
    /\ current_source_file = <<"", "">>
    /\ calls = <<>>
    /\ xml_files = <<>>
    /\ idx = 0
    /\ count = 0
    /\ log = <<>>

\* Variant of WritePoint: the output file written as soon as the text is read.
WritePointEarly == "read"

\* The statement after which md_path.write_text runs (parse.py:1090-1093).
WritePoint == "rendered"

\* parse.py:1084-1085
SetSourceFile ==
    /\ phase = "ready"
    /\ phase' = "entered"
    /\ current_source_file' = input.name
    /\ UNCHANGED <<input, output, previous, unhandled_tags, unhandled_classes,
                   calls, directoryVars>>

\* parse.py:1087: content = xml_path.read_text(encoding="utf-8")
ReadText ==
    /\ phase = "entered"
    /\ input.content.kind # "undecodable"
    /\ phase' = "read"
    /\ log' = Append(log, "read")
    /\ UNCHANGED <<input, output, previous, trackerVars, xml_files, idx, count,
                   written>>

ReadTextRaises ==
    /\ phase = "entered"
    /\ input.content.kind = "undecodable"
    /\ phase' = "raised"
    /\ output' = <<"UnicodeDecodeError">>
    /\ UNCHANGED <<input, previous, trackerVars, directoryVars>>

\* parse.py:1088: root = ET.fromstring(content)
Parse ==
    /\ phase = "read"
    /\ input.content.kind # "malformed"
    /\ phase' = "parsed"
    /\ log' = Append(log, "parsed")
    /\ UNCHANGED <<input, output, previous, trackerVars, xml_files, idx, count,
                   written>>

ParseRaises ==
    /\ phase = "read"
    /\ input.content.kind = "malformed"
    /\ phase' = "raised"
    /\ output' = <<"ParseError">>
    /\ UNCHANGED <<input, previous, trackerVars, directoryVars>>

\* The tracker after the track_element calls of xml_to_markdown(root).
TrackedEntry(root) ==
    TrackAll([tags |-> unhandled_tags, classes |-> unhandled_classes],
             current_source_file, EntryTracked(root))

\* parse.py:1090: markdown = xml_to_markdown(root)
Render ==
    /\ phase = "parsed"
    /\ input.content.kind = "entry"
    /\ phase' = "rendered"
    /\ unhandled_tags' = TrackedEntry(input.content.root).tags
    /\ unhandled_classes' = TrackedEntry(input.content.root).classes
    /\ calls' = calls \o [i \in 1..Len(EntryTracked(input.content.root)) |->
                    <<current_source_file, EntryTracked(input.content.root)[i]>>]
    /\ log' = Append(log, "rendered")
    /\ UNCHANGED <<input, output, previous, current_source_file,
                   xml_files, idx, count, written>>

RenderRaises ==
    /\ phase = "parsed"
    /\ input.content.kind = "unrenderable"
    /\ phase' = "raised"
    /\ output' = <<"RecursionError">>
    /\ unhandled_tags' = TrackedEntry(input.content.root).tags
    /\ unhandled_classes' = TrackedEntry(input.content.root).classes
    /\ calls' = calls \o [i \in 1..Len(EntryTracked(input.content.root)) |->
                    <<current_source_file, EntryTracked(input.content.root)[i]>>]
    /\ UNCHANGED <<input, previous, current_source_file, directoryVars>>

\* parse.py:1092-1093: md_path.write_text(markdown, encoding="utf-8")
WriteText ==
    /\ phase = WritePoint
    /\ phase' = "written"
    /\ written' = written \cup {with_suffix_md(input.name)}
    /\ log' = Append(log, "written")
    /\ UNCHANGED <<input, output, previous, trackerVars, xml_files, idx, count>>

\* parse.py:1095: return md_path
ReturnPath ==
    /\ phase = "written"
    /\ phase' = "done"
    /\ output' = with_suffix_md(input.name)
    /\ UNCHANGED <<input, previous, trackerVars, directoryVars>>

NextFile ==
    \/ SetSourceFile
    \/ ReadText
    \/ ReadTextRaises
    \/ Parse
    \/ ParseRaises
    \/ Render
    \/ RenderRaises
    \/ WriteText
    \/ ReturnPath

SpecFile == InitFile /\ [][NextFile]_vars

-----------------------------------------------------------------------------
(* Properties of process_file *)

\* C11: process_file writes the .md file only after the entry was parsed and
\* rendered: when the .md of the file has been written, parsing, rendering
\* and writing were completed in this order, and for a file whose parsing or
\* rendering raised no .md was created or modified.
C11_WriteAfterRender ==
    /\ with_suffix_md(input.name) \in written =>
            /\ input.content.kind = "entry"
            /\ \E i \in 1..Len(log) : \E j \in 1..Len(log) : \E k \in 1..Len(log) :
                    /\ i < j /\ j < k
                    /\ log[i] = "parsed"
                    /\ log[j] = "rendered"
                    /\ log[k] = "written"
    /\ phase = "raised" => with_suffix_md(input.name) \notin written

\* Rendering raised for the second file of a directory whose first file was
\* converted: only the .md of the first file exists.
C11_Witness ==
    /\ phase = "raised"
    /\ output = <<"RecursionError">>
    /\ input.name = <<"b", ".xml">>
    /\ written = {<<"a", ".md">>}

-----------------------------------------------------------------------------
(* Specification: track_element on elements of the recognized vocabulary *)

\* A span with one of the classes the tests of track_element name as handled.
VocabularyClasses ==
    {"hw", "hg", "xr", "xrg", "xrlabelGroup", "xrlabel", "v", "vg", "infg", "inf"}

VocabularyElements ==
    {E("span", <<cls>>, None, <<"t">>, None, <<>>) : cls \in VocabularyClasses}

InitVocabulary ==
    /\ phase = "ready"
    /\ input = <<>>
    /\ output = <<>>
    /\ previous = <<>>
    /\ unhandled_tags = <<>>
    /\ unhandled_classes = <<>>
    /\ current_source_file \in SourceFiles
    /\ calls = <<>>
    /\ xml_files = <<>>
    /\ idx = 0
    /\ count = 0
    /\ log = <<>>
    /\ written = {}

NextVocabulary == \E elem \in VocabularyElements : TrackElement(elem)

SpecVocabulary == InitVocabulary /\ [][NextVocabulary]_vars

\* C16: after tracking an element whose tag is span and whose class is one
\* of hw, hg, xr, xrg, xrlabelGroup, xrlabel, v, vg, infg, inf, neither the
\* tag nor that class is a key of the tracker.
C16_VocabularyNotRecorded ==
    \A i \in 1..Len(calls) :
        LET elem == calls[i][2] IN
        (elem.tag = "span" /\ \E cls \in VocabularyClasses : elem.cls = <<cls>>) =>
            /\ "span" \notin DOMAIN unhandled_tags
            /\ elem.cls[1] \notin DOMAIN unhandled_classes

-----------------------------------------------------------------------------
(* Further properties of format_fraction and of the link rule *)

\* The digits of the first direct child marked cls, none when it is missing.
PartDigitsOrNone(elem, cls) ==
    IF \E i \in 1..Len(elem.kids) : has_class(elem.kids[i], cls)
    THEN PartDigits(elem, cls)
    ELSE <<>>

\* C19: format_fraction raises nothing and returns a string; a numerator or
\* denominator that is missing, empty or without digit gives the empty
\* string for its part, so that the result starts, or ends, with the slash.
C19_FractionNeverRaises ==
    phase = "done" =>
        /\ IsStr(output)
        /\ (OneOfEach(input) \/ Len(input.kids) <= 1) =>
            /\ PartDigitsOrNone(input, "nu") = <<>> =>
                    output = <<FRACTION_SLASH>>
                                \o ToSubscript(PartDigitsOrNone(input, "dn"))
            /\ PartDigitsOrNone(input, "dn") = <<>> =>
                    output = ToSuperscript(PartDigitsOrNone(input, "nu"))
                                \o <<FRACTION_SLASH>>

\* A fraction with numerator 3 and no denominator child.
C19_Witness ==
    /\ phase = "done"
    /\ Len(input.kids) = 1
    /\ has_class(input.kids[1], "nu")
    /\ input.kids[1].text = <<"3">>
    /\ output = <<"^3", "frasl">>

\* All text inside the link in document order, the homograph-marked
\* children left out (their tails are text of the link and stay).
RECURSIVE LinkTextFrom(_, _)
LinkTextFrom(kids, i) ==
    IF i > Len(kids) THEN <<>>
    ELSE (IF has_class(kids[i], "ty_hom") THEN <<>> ELSE itertext(kids[i]))
         \o ChildTail(kids[i])
         \o LinkTextFrom(kids, i + 1)

FullDisplayText(child) ==
    normalize_whitespace(RootText(child) \o LinkTextFrom(child.kids, 1))

\* C20: the display text of a link is the whitespace-normalized concatenation
\* of the hyperlink's own text and all text of its descendants in document
\* order, without the text of the homograph-marked child; text that follows
\* a nested child is part of it.
C20_DisplayTextComplete ==
    (phase = "done" /\ OneChild(input) /\ Hyperlink(input.kids[1])) =>
        LET child == input.kids[1]
            D == FullDisplayText(child)
            h == LinkHomNum(child)
            L == IF HasHomograph(child) THEN D \o ToSuperscript(h) ELSE D
            T == LinkTitle(child)
            piece == IF T # <<>> /\ L # <<>>
                     THEN IF HasHomograph(child)
                          THEN MarkdownLink(L, T \o <<"_">> \o h)
                          ELSE MarkdownLink(L, T)
                     ELSE L
        IN  output = RootText(input) \o piece \o OwnLine(child) \o ChildTail(child)

-----------------------------------------------------------------------------
(* Specification: split_dictionary, split.py:57-111 *)

MaxEntries == 3

\* The d:entry elements of the dictionary file as find_entries sees them:
\* the value of extract_title ("" when there is no d:title) and of
\* extract_homograph, in the order of the matches.
SplitTitles == {<<>>, <<" ">>, <<"a">>, <<"a", " ">>, <<"/">>, <<":">>}

DictionaryEntries ==
    {[title |-> t, homograph |-> h] : t \in SplitTitles, h \in {None, <<"1">>}}

Dictionaries == SeqsUpTo(DictionaryEntries, MaxEntries)

\* The Entry find_entries yields for the match at position i; its content is
\* the matched text, told apart here by the position of the match.
EntryAt(i) ==
    [title |-> input[i].title, homograph |-> input[i].homograph, content |-> i]

\* find_entries yields a match only when `title.strip()` is truthy.
Yielded(i) == Truthy(strip(input[i].title))

\* Path.write_text: creates the file or replaces its content.
write_text(files, name, content) ==
    {f \in files : f.name # name} \cup {[name |-> name, content |-> content]}

InitSplit ==
    /\ phase = "ready"
    /\ input \in Dictionaries
    /\ output = <<>>
    /\ previous = <<>>
    /\ unhandled_tags = <<>>
    /\ unhandled_classes = <<>>
    /\ current_source_file = <<"", "">>
    /\ calls = <<>>
    /\ xml_files = <<>>
    /\ idx = 0
    /\ count = 0
    /\ log = <<>>
    /\ written = {}

\* split.py:77: the match has no title, or a blank one, and is not yielded.
SkipEntry ==
    /\ phase = "ready" /\ idx < Len(input)
    /\ ~Yielded(idx + 1)
    /\ idx' = idx + 1
    /\ UNCHANGED <<phase, input, output, previous, trackerVars, xml_files,
                   count, log, written>>

\* split.py:82-87 and 107-109: save_entry, then the message and the count.
SaveEntry ==
    /\ phase = "ready" /\ idx < Len(input)
    /\ Yielded(idx + 1)
    /\ written' = write_text(written, make_filename(EntryAt(idx + 1)), idx + 1)
    /\ log' = Append(log, <<"Created", make_filename(EntryAt(idx + 1))>>)
    /\ count' = count + 1
    /\ idx' = idx + 1
    /\ UNCHANGED <<phase, input, output, previous, trackerVars, xml_files>>

ReturnSplitCount ==
    /\ phase = "ready" /\ idx = Len(input)
    /\ phase' = "done"
    /\ output' = count
    /\ UNCHANGED <<input, previous, trackerVars, directoryVars>>

NextSplit == SkipEntry \/ SaveEntry \/ ReturnSplitCount

SpecSplit == InitSplit /\ [][NextSplit]_vars

\* C14: when split_dictionary has returned, every entry with a non-blank
\* title is in a file of its own: two distinct entries have different
\* filenames, the file of each entry holds that entry, and the returned
\* count is the number of files in the output directory.
C14_OwnFile ==
    phase = "done" =>
        /\ \A i, j \in 1..Len(input) :
                (i # j /\ Yielded(i) /\ Yielded(j)) =>
                    make_filename(EntryAt(i)) # make_filename(EntryAt(j))
        /\ \A i \in 1..Len(input) :
                Yielded(i) =>
                    [name |-> make_filename(EntryAt(i)), content |-> i] \in written
        /\ output = Cardinality(written)

-----------------------------------------------------------------------------
(* Element search and string search used by the block renderers *)

\* list(elem.iter()): the element itself, then its descendants, in
\* document order.
RECURSIVE iter(_)
RECURSIVE IterKids(_, _)
IterKids(kids, i) ==
    IF i > Len(kids) THEN <<>> ELSE iter(kids[i]) \o IterKids(kids, i + 1)
iter(elem) == <<elem>> \o IterKids(elem.kids, 1)

\* find_by_class(elem, cls): the matches among iter(elem).
find_by_class(elem, cls) == SelectSeq(iter(elem), LAMBDA e : has_class(e, cls))

\* find_by_class(elem, cls, direct_only=True): among the children only.
find_by_class_direct(elem, cls) == SelectSeq(elem.kids, LAMBDA e : has_class(e, cls))

\* find_first_by_class: <<e>> for the first match e, <<>> for None. The loops
\* of parse.py:191-200 return at the first element that has the class.
RECURSIVE FirstWithClass(_, _, _)
FirstWithClass(elems, i, cls) ==
    IF i > Len(elems) THEN <<>>
    ELSE IF has_class(elems[i], cls) THEN <<elems[i]>>
    ELSE FirstWithClass(elems, i + 1, cls)

find_first_by_class(elem, cls) == FirstWithClass(iter(elem), 1, cls)

find_first_by_class_direct(elem, cls) == FirstWithClass(elem.kids, 1, cls)

\* `if text: parts.append(text)`: the list of the text, of nothing when the
\* text is empty.
Kept(text) == IF text # <<>> THEN <<text>> ELSE <<>>

\* s.startswith(prefix)
startswith(s, prefix) ==
    Len(prefix) <= Len(s) /\ SubSeq(s, 1, Len(prefix)) = prefix

\* s.find(sub) + 1: the position of the first occurrence, 0 when none.
find(s, sub) ==
    IF \E i \in 1..(Len(s) + 1) : startswith(From(s, i), sub)
    THEN CHOOSE i \in 1..(Len(s) + 1) :
            /\ startswith(From(s, i), sub)
            /\ \A j \in 1..(i - 1) : ~startswith(From(s, j), sub)
    ELSE 0

-----------------------------------------------------------------------------
(* format_note, parse.py:982-1024 *)

Blockquote == <<">", " ">>

Bold(text) == <<"*", "*">> \o text \o <<"*", "*">>

\* lbl_text of parse.py:987, 1006 and 1015; the empty string stands for
\* the label that is missing as well, where the code does not compute it.
NoteLabelText(note_elem) ==
    LET lbl_elem == find_first_by_class(note_elem, "lbl") IN
    IF lbl_elem = <<>> THEN <<>>
    ELSE normalize_whitespace(get_all_text(lbl_elem[1]))

\* The conditions of parse.py:986-995 under which the two-line form is
\* returned.
LabelOnOwnLine(lbl_elem, lbl_text, raw_content) ==
    /\ lbl_elem # <<>>
    /\ has_class(lbl_elem[1], "x_blk")
    /\ lbl_text # <<>>
    /\ find(raw_content, lbl_text) # 0
    /\ startswith(From(raw_content, find(raw_content, lbl_text) + Len(lbl_text)),
                  <<"\n">>)

NoteOwnLine(note_elem) ==
    LabelOnOwnLine(find_first_by_class(note_elem, "lbl"),
                   NoteLabelText(note_elem),
                   format_inline_content(note_elem))

\* parse.py:996-1001
TwoLines(lbl_text, rest) ==
    Blockquote \o Bold(lbl_text)
        \o (IF rest # <<>> THEN <<"\n">> \o Blockquote \o rest ELSE <<>>)

\* raw_content[lbl_idx + len(lbl_text):][1:]
RestAfterLabel(raw_content, lbl_text) ==
    Tail(From(raw_content, find(raw_content, lbl_text) + Len(lbl_text)))

NoteTwoLines(note_elem) ==
    TwoLines(NoteLabelText(note_elem),
             normalize_whitespace(
                RestAfterLabel(format_inline_content(note_elem),
                               NoteLabelText(note_elem))))

\* parse.py:1003-1024
\* parse.py:1011-1017: the content with the label taken off its start.
NoteContent(lbl_elem, lbl_text, normalized) ==
    IF lbl_elem # <<>> /\ startswith(normalized, lbl_text)
    THEN strip(From(normalized, Len(lbl_text) + 1))
    ELSE normalized

\* parse.py:1024
BlockquoteLine(parts) ==
    IF parts # <<>> THEN Blockquote \o JoinWith(<<" ">>, parts) ELSE <<>>

NoteOneLine(note_elem) ==
    BlockquoteLine(
        (IF NoteLabelText(note_elem) # <<>>
         THEN <<Bold(NoteLabelText(note_elem))>> ELSE <<>>)
        \o Kept(NoteContent(find_first_by_class(note_elem, "lbl"),
                            NoteLabelText(note_elem),
                            normalize_whitespace(format_inline_content(note_elem)))))

format_note(note_elem) ==
    IF NoteOwnLine(note_elem) THEN NoteTwoLines(note_elem) ELSE NoteOneLine(note_elem)

\* The elements format_note passes to track_element: format_inline_content
\* runs at parse.py:989 for a marked label and at parse.py:1011 when the
\* two-line form was not returned.
NoteTracked(note_elem) ==
    LET lbl_elem == find_first_by_class(note_elem, "lbl") IN
    (IF lbl_elem # <<>> /\ has_class(lbl_elem[1], "x_blk")
     THEN InlineTracked(note_elem) ELSE <<>>)
    \o (IF NoteOwnLine(note_elem) THEN <<>> ELSE InlineTracked(note_elem))

-----------------------------------------------------------------------------
(* Specification: format_note applied to one note element *)

LabelClasses ==
    {<<"lbl">>, <<"lbl", "x_blk">>, <<"x_blk", "lbl">>, <<"lbl", "x_blk", "bold">>,
     <<"lbl", "bold">>}

LabelTexts == {None, <<"L">>, <<" ", "L", " ">>, <<"L", " ", " ", "M">>}

BodyTexts ==
    {None, <<"B">>, <<" ", "B", " ", " ", "c", " ">>, <<"L", " ", "B">>, <<"\n", "B">>}

NoteTexts == {None, <<" ">>, <<"s", " ">>, <<"L", " ">>}

Labels ==
    {E("span", c, None, t, b, <<>>) : c \in LabelClasses, t \in LabelTexts, b \in BodyTexts}
    \cup {E("span", c, None, None, b, <<E("i", None, None, <<"L">>, None, <<>>)>>) :
            c \in LabelClasses, b \in BodyTexts}

\* What may follow the label inside the note.
AfterLabel ==
    {<<>>,
     <<E("span", <<"ex">>, None, <<"e">>, <<" ", "t">>, <<>>)>>,
     <<E("span", <<"lbl", "x_blk">>, None, <<"N">>, <<"u">>, <<>>)>>}

NoteInputs ==
    {E("span", <<"note">>, None, t, None, <<l>> \o a) :
        t \in NoteTexts, l \in Labels, a \in AfterLabel}
    \cup {E("span", <<"note">>, None, t, None, a) : t \in NoteTexts, a \in AfterLabel}
    \cup {E("span", <<"note">>, None, t, None,
            <<E("span", <<"un">>, None, None, <<"B">>, <<l>>)>>) :
            t \in NoteTexts, l \in Labels}

InitNote == input \in NoteInputs /\ InitCommon

FormatNote ==
    /\ phase = "ready"
    /\ phase' = "done"
    /\ output' = format_note(input)
    /\ LET tracked == NoteTracked(input)
           t == TrackAll([tags |-> unhandled_tags, classes |-> unhandled_classes],
                         current_source_file, tracked)
       IN  /\ unhandled_tags' = t.tags
           /\ unhandled_classes' = t.classes
           /\ calls' = calls \o [i \in 1..Len(tracked) |->
                                    <<current_source_file, tracked[i]>>]
    /\ UNCHANGED <<input, previous, current_source_file, directoryVars>>

NextNote == FormatNote

SpecNote == InitNote /\ [][NextNote]_vars

-----------------------------------------------------------------------------
(* Properties of format_note *)

\* The note's label is its first child.
LabelFirst(note_elem) ==
    note_elem.kids # <<>> /\ has_class(note_elem.kids[1], "lbl")

\* The body of the note: the inline rendering of the note with the content
\* of the label taken out (the text that follows the label stays),
\* whitespace-normalized.
NoteBody(note_elem) ==
    normalize_whitespace(format_inline_content(
        [note_elem EXCEPT !.kids[1] =
            E("span", None, None, None, note_elem.kids[1].tail, <<>>)]))

\* C13: a note with label L and body B is rendered as the two lines
\* `> **L**` and `> B` when the label carries the own-line marker x_blk, and
\* as the single line `> **L** B` when it does not.
C13_NoteLines ==
    (phase = "done" /\ LabelFirst(input)
        /\ NoteLabelText(input) # <<>> /\ NoteBody(input) # <<>>) =>
        LET L == NoteLabelText(input)
            B == NoteBody(input)
        IN  IF has_class(input.kids[1], "x_blk")
            THEN output = Blockquote \o Bold(L) \o <<"\n">> \o Blockquote \o B
            ELSE output = Blockquote \o Bold(L) \o <<" ">> \o B

\* The case in which the stated form is produced: the label is rendered by
\* the label branch of the inline renderer and is the first text of the
\* note.
PlainLabelFirst(note_elem) ==
    /\ LabelFirst(note_elem)
    /\ Rule(note_elem.kids[1]) = "lbl"
    /\ ~Truthy(note_elem.text) \/ strip(note_elem.text) = <<>>

NotePlainCaseLines == PlainLabelFirst(input) => C13_NoteLines

-----------------------------------------------------------------------------
(* format_example_group, format_subsense and format_sense,
   parse.py:506-508 and 532-617 *)

Bullet == <<" ", " ", "-", " ">>

\* "bullet" stands for the one character U+2022 of parse.py:541.

format_example_group(elem) == normalize_whitespace(format_inline_content(elem))

\* The inline rendering, normalized, of an element searched for (found is
\* the list of the match, empty when there is none), as a list of at most
\* one text.
RenderedPart(found, keep_empty) ==
    IF found = <<>> THEN <<>>
    ELSE IF keep_empty THEN <<normalize_whitespace(format_inline_content(found[1]))>>
    ELSE Kept(normalize_whitespace(format_inline_content(found[1])))

\* What format_inline_content tracks on an element searched for.
FoundTracked(found) == IF found = <<>> THEN <<>> ELSE InlineTracked(found[1])

\* `find_first_by_class(elem, cls, direct_only=True)` rendered inline and
\* normalized, as a list of at most one text; `if text:` drops the empty
\* text where the code has that test (not for df).
PartText(elem, cls, keep_empty) ==
    RenderedPart(find_first_by_class_direct(elem, cls), keep_empty)

PartTracked(elem, cls) == FoundTracked(find_first_by_class_direct(elem, cls))

\* The loop over the direct children of class eg (parse.py:576-580,
\* 609-613).
RECURSIVE ExampleTexts(_, _)
ExampleTexts(kids, i) ==
    IF i > Len(kids) THEN <<>>
    ELSE (IF has_class(kids[i], "eg") THEN Kept(format_example_group(kids[i]))
          ELSE <<>>)
         \o ExampleTexts(kids, i + 1)

RECURSIVE ExampleTracked(_, _)
ExampleTracked(kids, i) ==
    IF i > Len(kids) THEN <<>>
    ELSE (IF has_class(kids[i], "eg") THEN InlineTracked(kids[i]) ELSE <<>>)
         \o ExampleTracked(kids, i + 1)

\* parse.py:615-617: the bulleted line of the parts, nothing without parts.
BulletLine(parts) == IF parts # <<>> THEN Bullet \o JoinWith(<<" ">>, parts) ELSE <<>>

format_subsense(msdict_elem) ==
    BulletLine(PartText(msdict_elem, "lg", FALSE)
                \o PartText(msdict_elem, "df", TRUE)
                \o ExampleTexts(msdict_elem.kids, 1))

SubsenseTracked(msdict_elem) ==
    PartTracked(msdict_elem, "lg") \o PartTracked(msdict_elem, "df")
        \o ExampleTracked(msdict_elem.kids, 1)

\* parse.py:556-580: what one main msDict adds to main_content.
SenseMainContent(msdict) ==
    PartText(msdict, "vg", FALSE) \o PartText(msdict, "lg", FALSE)
        \o PartText(msdict, "df", TRUE) \o ExampleTexts(msdict.kids, 1)

\* The loop of parse.py:548-580: <<lines, main_content>>.
RECURSIVE SenseLoop(_, _)
SenseLoop(msdicts, i) ==
    IF i > Len(msdicts) THEN <<<<>>, <<>>>>
    ELSE LET rest == SenseLoop(msdicts, i + 1) IN
         IF has_class(msdicts[i], "t_subsense")
         THEN <<Kept(format_subsense(msdicts[i])) \o rest[1], rest[2]>>
         ELSE <<rest[1], SenseMainContent(msdicts[i]) \o rest[2]>>

\* parse.py:537-544
SensePrefix(se2_elem, is_subsense) ==
    LET sn_elem == find_first_by_class_direct(se2_elem, "sn") IN
    IF sn_elem = <<>> THEN <<>>
    ELSE LET sn_text == strip(get_all_text(sn_elem[1])) IN
         IF is_subsense \/ sn_text = <<"bullet">> THEN Bullet ELSE sn_text \o <<" ">>

\* parse.py:585-588: the main line in front of the lines of the subsenses.
SenseLines(prefix, lines, main_content) ==
    (IF main_content # <<>>
     THEN <<prefix \o JoinWith(<<" ">>, main_content)>> ELSE <<>>) \o lines

\* r is the pair the loop returns.
SenseLinesOf(prefix, r) == SenseLines(prefix, r[1], r[2])

format_sense(se2_elem, is_subsense) ==
    JoinWith(<<"\n">>,
        SenseLinesOf(SensePrefix(se2_elem, is_subsense),
                     SenseLoop(find_by_class_direct(se2_elem, "msDict"), 1)))

RECURSIVE SenseTrackedLoop(_, _)
SenseTrackedLoop(msdicts, i) ==
    IF i > Len(msdicts) THEN <<>>
    ELSE (IF has_class(msdicts[i], "t_subsense")
          THEN SubsenseTracked(msdicts[i])
          ELSE PartTracked(msdicts[i], "vg") \o PartTracked(msdicts[i], "lg")
                \o PartTracked(msdicts[i], "df") \o ExampleTracked(msdicts[i].kids, 1))
         \o SenseTrackedLoop(msdicts, i + 1)

SenseTracked(se2_elem) ==
    SenseTrackedLoop(find_by_class_direct(se2_elem, "msDict"), 1)

-----------------------------------------------------------------------------
(* Specification: format_sense applied to one sense *)

Span(cls, text, kids) == E("span", cls, None, text, None, kids)

SenseNumbers ==
    {<<>>, <<Span(<<"sn">>, <<"2">>, <<>>)>>, <<Span(<<"sn">>, <<" ", "1", "0", " ">>, <<>>)>>,
     <<Span(<<"sn">>, <<"bullet">>, <<>>)>>, <<Span(<<"sn">>, None, <<>>)>>}

CrossReferenceGroup ==
    Span(<<"xrg">>, <<"s", "e", "e", " ">>,
         <<Span(<<"xr">>, None,
                <<E("a", None, <<"m">>, <<"m">>, None, <<>>)>>)>>)

\* The children an msDict is made of.
SenseParts ==
    {Span(<<"df">>, <<"d">>, <<>>), Span(<<"df">>, None, <<>>),
     Span(<<"df">>, <<"d", " ">>, <<CrossReferenceGroup>>),
     CrossReferenceGroup,
     Span(<<"lg">>, <<"r">>, <<>>), Span(<<"vg">>, <<"v">>, <<>>),
     Span(<<"eg">>, None, <<Span(<<"ex">>, <<"e">>, <<>>)>>),
     Span(<<"zz">>, <<"u">>, <<>>)}

MsDicts ==
    {Span(c, None, kids) :
        c \in {<<"msDict">>, <<"msDict", "t_subsense">>},
        kids \in SeqsUpTo(SenseParts, MaxKids)}

SenseInputs ==
    {[se2_elem |-> Span(<<"se2">>, None, sn \o ms), is_subsense |-> b] :
        sn \in SenseNumbers, ms \in SeqsUpTo(MsDicts, 1), b \in BOOLEAN}
    \cup {[se2_elem |-> Span(<<"se2">>, None, sn \o <<m1, m2>>), is_subsense |-> FALSE] :
            sn \in SenseNumbers,
            m1 \in {m \in MsDicts : Len(m.kids) = 1},
            m2 \in {m \in MsDicts : Len(m.kids) = 1}}

InitSense == input \in SenseInputs /\ InitCommon

\* The tracker after track_element on each element of `tracked`.
TrackerBecomes(t, tracked) ==
    /\ unhandled_tags' = t.tags
    /\ unhandled_classes' = t.classes
    /\ calls' = calls \o [i \in 1..Len(tracked) |-> <<current_source_file, tracked[i]>>]

\* track_element on each element of `tracked`, in order.
Tracking(tracked) ==
    TrackerBecomes(
        TrackAll([tags |-> unhandled_tags, classes |-> unhandled_classes],
                 current_source_file, tracked),
        tracked)

FormatSense ==
    /\ phase = "ready"
    /\ phase' = "done"
    /\ output' = format_sense(input.se2_elem, input.is_subsense)
    /\ Tracking(SenseTracked(input.se2_elem))
    /\ UNCHANGED <<input, previous, current_source_file, directoryVars>>

NextSense == FormatSense

SpecSense == InitSense /\ [][NextSense]_vars

\* C17: format_sense on a numbered sense whose main definition group holds
\* a cross-reference group and no definition returns the sense number, a
\* space, and the inline rendering of the cross-reference group with its
\* Markdown link.
C17_CrossReferenceSense ==
    LET kids == input.se2_elem.kids IN
    (/\ phase = "done"
     /\ ~input.is_subsense
     /\ Len(kids) = 2
     /\ has_class(kids[1], "sn")
     /\ strip(get_all_text(kids[1])) \notin {<<>>, <<"bullet">>}
     /\ get_class(kids[2]) = <<"msDict">>
     /\ kids[2].kids = <<CrossReferenceGroup>>) =>
        output = strip(get_all_text(kids[1])) \o <<" ">>
                    \o normalize_whitespace(format_inline_content(CrossReferenceGroup))

-----------------------------------------------------------------------------
(* format_header, parse.py:466-503 *)

\* `find_first_by_class(elem, cls)` with `normalize_whitespace(get_all_text())`
\* of the match, as a list of at most one text; the empty text is dropped.
PlainPart(found) ==
    IF found = <<>> THEN <<>> ELSE Kept(normalize_whitespace(get_all_text(found[1])))

PlainText(elem, cls) == PlainPart(find_first_by_class(elem, cls))

\* parse.py:475-482: SUPERSCRIPT.get(hom_num, hom_num) looks the whole
\* text up, so only a one-character number is converted.
HomographMark(hom_num) ==
    IF Len(hom_num) = 1 THEN <<SUPERSCRIPT(hom_num[1])>> ELSE hom_num

HeaderHomograph(root) ==
    LET hw_elem == find_first_by_class(root, "hw") IN
    IF hw_elem = <<>> THEN <<>>
    ELSE LET hom_elem == find_first_by_class(hw_elem[1], "ty_hom") IN
         IF hom_elem = <<>> THEN <<>>
         ELSE HomographMark(get_all_text(hom_elem[1]))

\* parse.py:492-499
HeaderVariant(root) ==
    LET hg_elem == find_first_by_class(root, "hg") IN
    IF hg_elem = <<>> THEN <<>> ELSE PartText(hg_elem[1], "vg", FALSE)

format_header(root) ==
    JoinWith(<<" ">>,
        (IF Truthy(root.title)
         THEN <<<<"#", " ">> \o root.title \o HeaderHomograph(root)>> ELSE <<>>)
        \o PlainText(root, "prx")
        \o HeaderVariant(root))

HeaderTracked(root) ==
    LET hg_elem == find_first_by_class(root, "hg") IN
    IF hg_elem = <<>> THEN <<>> ELSE PartTracked(hg_elem[1], "vg")

-----------------------------------------------------------------------------
(* format_pos_block, parse.py:620-704 *)

Italic(text) == <<"*">> \o text \o <<"*">>

\* parse.py:649-655
PosLabelGroup(se1_elem) ==
    LET x_xdh_elem == find_first_by_class_direct(se1_elem, "x_xdh") IN
    IF x_xdh_elem = <<>> THEN <<>> ELSE PartText(x_xdh_elem[1], "lg", FALSE)

\* parse.py:625-655
\* The texts of a list of at most one text, in bold and in italics.
BoldPart(texts) == IF texts # <<>> THEN <<Bold(texts[1])>> ELSE <<>>

ItalicPart(texts) == IF texts # <<>> THEN <<Italic(texts[1])>> ELSE <<>>

PosLineParts(se1_elem) ==
    BoldPart(PlainText(se1_elem, "pos"))
        \o PlainText(se1_elem, "gg")
        \o ItalicPart(PlainText(se1_elem, "sj"))
        \o PosLabelGroup(se1_elem)

Flush(inline_parts) ==
    IF inline_parts # <<>> THEN <<JoinWith(<<" ">>, inline_parts)>> ELSE <<>>

\* The loop of parse.py:676-702 over the children of a direct msDict: the
\* lines it appends, inline_parts being the texts collected so far.
\* parse.py:684-687: a note on a line of its own after a blank line.
NoteLines(note) == IF note # <<>> THEN <<<<>>, note>> ELSE <<>>

RECURSIVE MsDictLines(_, _, _)
MsDictLines(kids, i, inline_parts) ==
    IF i > Len(kids) THEN Flush(inline_parts)
    ELSE IF has_class(kids[i], "note")
         THEN Flush(inline_parts)
                \o NoteLines(format_note(kids[i]))
                \o MsDictLines(kids, i + 1, <<>>)
    ELSE IF has_class(kids[i], "df") \/ has_class(kids[i], "eg")
         THEN MsDictLines(kids, i + 1,
                inline_parts
                    \o Kept(normalize_whitespace(format_inline_content(kids[i]))))
    ELSE IF has_class(kids[i], "gp")
         THEN MsDictLines(kids, i + 1, inline_parts \o Kept(get_all_text(kids[i])))
    ELSE MsDictLines(kids, i + 1, inline_parts)

RECURSIVE MsDictTracked(_, _)
MsDictTracked(kids, i) ==
    IF i > Len(kids) THEN <<>>
    ELSE (IF has_class(kids[i], "note") THEN NoteTracked(kids[i])
          ELSE IF has_class(kids[i], "df") \/ has_class(kids[i], "eg")
               THEN InlineTracked(kids[i])
               ELSE <<>>)
         \o MsDictTracked(kids, i + 1)

\* parse.py:662-668: the senses of the children of class se2.
RECURSIVE PosSenseLines(_, _)
PosSenseLines(kids, i) ==
    IF i > Len(kids) THEN <<>>
    ELSE (IF has_class(kids[i], "se2") THEN Kept(format_sense(kids[i], FALSE))
          ELSE <<>>)
         \o PosSenseLines(kids, i + 1)

\* parse.py:671-702: the direct definitions of the children of class msDict.
RECURSIVE PosDirectLines(_, _)
PosDirectLines(kids, i) ==
    IF i > Len(kids) THEN <<>>
    ELSE (IF has_class(kids[i], "msDict")
          THEN MsDictLines(kids[i].kids, 1, <<>>) ELSE <<>>)
         \o PosDirectLines(kids, i + 1)

\* Variant of format_pos_block: the direct definition groups rendered also
\* when the block has numbered senses.
format_pos_block_direct(se1_elem) ==
    JoinWith(<<"\n">>,
        Flush(PosLineParts(se1_elem))
            \o <<<<>>>>
            \o PosSenseLines(se1_elem.kids, 1)
            \o PosDirectLines(se1_elem.kids, 1))

format_pos_block(se1_elem) ==
    JoinWith(<<"\n">>,
        Flush(PosLineParts(se1_elem))
            \o <<<<>>>>
            \o (IF find_by_class_direct(se1_elem, "se2") # <<>>
                THEN PosSenseLines(se1_elem.kids, 1)
                ELSE PosDirectLines(se1_elem.kids, 1)))

RECURSIVE PosTrackedLoop(_, _, _)
PosTrackedLoop(kids, i, has_se2) ==
    IF i > Len(kids) THEN <<>>
    ELSE (IF has_se2 /\ has_class(kids[i], "se2") THEN SenseTracked(kids[i])
          ELSE IF ~has_se2 /\ has_class(kids[i], "msDict")
               THEN MsDictTracked(kids[i].kids, 1)
               ELSE <<>>)
         \o PosTrackedLoop(kids, i + 1, has_se2)

PosTracked(se1_elem) ==
    LET x_xdh_elem == find_first_by_class_direct(se1_elem, "x_xdh") IN
    (IF x_xdh_elem = <<>> THEN <<>> ELSE PartTracked(x_xdh_elem[1], "lg"))
    \o PosTrackedLoop(se1_elem.kids, 1, find_by_class_direct(se1_elem, "se2") # <<>>)

-----------------------------------------------------------------------------
(* Sub-entries: format_subentry_msdict, format_subentry_sense and
   format_subentry_content, parse.py:707-848 *)

\* parse.py:733-736
SubentryResult(result, is_subsense) ==
    IF result # <<>> /\ is_subsense THEN Bullet \o result ELSE result

format_subentry_msdict(msdict_elem, is_subsense) ==
    SubentryResult(
        JoinWith(<<" ">>,
            PartText(msdict_elem, "fg", FALSE)
                \o PartText(msdict_elem, "lg", FALSE)
                \o PartText(msdict_elem, "df", FALSE)
                \o ExampleTexts(msdict_elem.kids, 1)),
        is_subsense)

SubentryMsdictTracked(msdict_elem) ==
    PartTracked(msdict_elem, "fg") \o PartTracked(msdict_elem, "lg")
        \o PartTracked(msdict_elem, "df") \o ExampleTracked(msdict_elem.kids, 1)

\* `text and text.isdigit()` for the texts of the model.
isdigit(text) == text # <<>> /\ \A i \in 1..Len(text) : text[i] \in Digits

NumberMark(elem) ==
    /\ has_class(elem, "sn") \/ has_class(elem, "tg_se2")
    /\ isdigit(get_all_text(elem))

\* parse.py:757-763: the inner loop over the children of an x_xoh header.
RECURSIVE InnerNumber(_, _, _)
InnerNumber(kids, i, sn_text) ==
    IF i > Len(kids) THEN sn_text
    ELSE IF NumberMark(kids[i]) THEN get_all_text(kids[i])
    ELSE InnerNumber(kids, i + 1, sn_text)

\* parse.py:749-763: the outer loop ends at a child that is a number; the
\* break of the inner loop does not end it.
RECURSIVE SubentryNumber(_, _, _)
SubentryNumber(kids, i, sn_text) ==
    IF i > Len(kids) THEN sn_text
    ELSE IF NumberMark(kids[i]) THEN get_all_text(kids[i])
    ELSE IF has_class(kids[i], "x_xoh")
         THEN SubentryNumber(kids, i + 1, InnerNumber(kids[i].kids, 1, sn_text))
         ELSE SubentryNumber(kids, i + 1, sn_text)

\* parse.py:766-776: the form group the loop stops at, <<>> when none.
RECURSIVE SubentryFormGroup(_, _)
SubentryFormGroup(kids, i) ==
    IF i > Len(kids) THEN <<>>
    ELSE IF has_class(kids[i], "fg") THEN <<kids[i]>>
    ELSE IF has_class(kids[i], "x_xoh") /\ find_first_by_class(kids[i], "fg") # <<>>
         THEN find_first_by_class(kids[i], "fg")
         ELSE SubentryFormGroup(kids, i + 1)

\* parse.py:779-800
RECURSIVE SubentrySenseLoop(_, _, _, _)
RECURSIVE SubentryMainText(_, _, _, _, _)
\* parse.py:789-800: the turn of the loop for a main msDict whose text is
\* main_text.
SubentryMainText(msdicts, i, first_main, prefix, main_text) ==
    IF main_text = <<>>
    THEN SubentrySenseLoop(msdicts, i + 1, first_main, prefix)
    ELSE IF first_main /\ prefix # <<>>
    THEN <<prefix \o main_text>>
            \o SubentrySenseLoop(msdicts, i + 1, FALSE, prefix)
    ELSE <<main_text>>
            \o SubentrySenseLoop(msdicts, i + 1, first_main, prefix)

SubentrySenseLoop(msdicts, i, first_main, prefix) ==
    IF i > Len(msdicts) THEN <<>>
    ELSE IF has_class(msdicts[i], "t_subsense")
         THEN Kept(format_subentry_msdict(msdicts[i], TRUE))
              \o SubentrySenseLoop(msdicts, i + 1, first_main, prefix)
         ELSE SubentryMainText(msdicts, i, first_main, prefix,
                               format_subentry_msdict(msdicts[i], FALSE))

\* The list of lines format_subentry_sense returns.
\* fg_text of parse.py:768-776, empty without form group.
FormGroupText(fg_elem) ==
    IF fg_elem = <<>> THEN <<>>
    ELSE normalize_whitespace(format_inline_content(fg_elem[1]))

\* parse.py:791-796
SubentryPrefix(sn_text, fg_text) ==
    IF sn_text = <<>> THEN <<>>
    ELSE sn_text \o <<" ">> \o (IF fg_text # <<>> THEN fg_text \o <<" ">> ELSE <<>>)

format_subentry_sense(se2_elem) ==
    SubentrySenseLoop(find_by_class_direct(se2_elem, "msDict"), 1, TRUE,
        SubentryPrefix(SubentryNumber(se2_elem.kids, 1, <<>>),
                       FormGroupText(SubentryFormGroup(se2_elem.kids, 1))))

RECURSIVE MsdictsTracked(_, _)
MsdictsTracked(msdicts, i) ==
    IF i > Len(msdicts) THEN <<>>
    ELSE SubentryMsdictTracked(msdicts[i]) \o MsdictsTracked(msdicts, i + 1)

SubentrySenseTracked(se2_elem) ==
    FoundTracked(SubentryFormGroup(se2_elem.kids, 1))
    \o MsdictsTracked(find_by_class_direct(se2_elem, "msDict"), 1)

RECURSIVE SubentrySensesLines(_, _)
SubentrySensesLines(se2_elems, i) ==
    IF i > Len(se2_elems) THEN <<>>
    ELSE format_subentry_sense(se2_elems[i]) \o SubentrySensesLines(se2_elems, i + 1)

RECURSIVE SubentrySensesTracked(_, _)
SubentrySensesTracked(se2_elems, i) ==
    IF i > Len(se2_elems) THEN <<>>
    ELSE SubentrySenseTracked(se2_elems[i]) \o SubentrySensesTracked(se2_elems, i + 1)

RECURSIVE SubentryMsdictLines(_, _)
SubentryMsdictLines(msdicts, i) ==
    IF i > Len(msdicts) THEN <<>>
    ELSE Kept(format_subentry_msdict(msdicts[i], has_class(msdicts[i], "t_subsense")))
         \o SubentryMsdictLines(msdicts, i + 1)

\* The list of lines format_subentry_content returns.
format_subentry_content(subentry) ==
    LET se2_elems == find_by_class_direct(subentry, "se2") IN
    IF se2_elems # <<>> THEN SubentrySensesLines(se2_elems, 1)
    ELSE SubentryMsdictLines(find_by_class_direct(subentry, "msDict"), 1)

SubentryContentTracked(subentry) ==
    LET se2_elems == find_by_class_direct(subentry, "se2") IN
    IF se2_elems # <<>> THEN SubentrySensesTracked(se2_elems, 1)
    ELSE MsdictsTracked(find_by_class_direct(subentry, "msDict"), 1)

-----------------------------------------------------------------------------
(* The sections: format_phrases_section, format_phrasal_verbs_section,
   format_derivatives_section and format_origin_section, parse.py:851-979 *)

HorizontalRule == <<"-", "-", "-">>

PHRASES == <<"#", "#", " ", "P", "H", "R", "A", "S", "E", "S">>

PHRASAL_VERBS ==
    <<"#", "#", " ", "P", "H", "R", "A", "S", "A", "L", " ", "V", "E", "R", "B", "S">>

DERIVATIVES ==
    <<"#", "#", " ", "D", "E", "R", "I", "V", "A", "T", "I", "V", "E", "S">>

ORIGIN == <<"O", "R", "I", "G", "I", "N">>

\* The first lines of every section: rule, blank, heading, blank.
SectionHead(heading) == <<HorizontalRule, <<>>, heading, <<>>>>

\* The variant group found through the x_xoh header of a sub-entry, as a
\* list of at most one element.
SubentryVariant(subentry) ==
    LET x_xoh == find_first_by_class(subentry, "x_xoh") IN
    IF x_xoh = <<>> THEN <<>> ELSE find_first_by_class(x_xoh[1], "vg")

SubentryVariantText(subentry) == RenderedPart(SubentryVariant(subentry), FALSE)

\* parse.py:860-872: the header line of a phrase, none without headword.
PhraseHeader(subentry) ==
    LET l_elem == find_first_by_class(subentry, "l") IN
    IF l_elem = <<>> THEN <<>>
    ELSE <<JoinWith(<<" ">>,
                <<Bold(normalize_whitespace(get_all_text(l_elem[1])))>>
                    \o SubentryVariantText(subentry))>>

RECURSIVE PhraseLines(_, _)
PhraseLines(subentries, i) ==
    IF i > Len(subentries) THEN <<>>
    ELSE PhraseHeader(subentries[i])
         \o format_subentry_content(subentries[i])
         \o <<<<>>>>
         \o PhraseLines(subentries, i + 1)

RECURSIVE PhraseTracked(_, _)
PhraseTracked(subentries, i) ==
    IF i > Len(subentries) THEN <<>>
    ELSE (IF find_first_by_class(subentries[i], "l") # <<>>
          THEN FoundTracked(SubentryVariant(subentries[i])) ELSE <<>>)
         \o SubentryContentTracked(subentries[i])
         \o PhraseTracked(subentries, i + 1)

format_phrases_section(block_elem) ==
    JoinWith(<<"\n">>,
        SectionHead(PHRASES) \o PhraseLines(find_by_class(block_elem, "subEntry"), 1))

format_phrasal_verbs_section(block_elem) ==
    JoinWith(<<"\n">>,
        SectionHead(PHRASAL_VERBS)
            \o PhraseLines(find_by_class(block_elem, "subEntry"), 1))

\* parse.py:931-937: pr, and prx only when there is no pr.
DerivativePronunciation(subentry) ==
    IF find_first_by_class(subentry, "pr") # <<>>
    THEN PlainText(subentry, "pr") ELSE PlainText(subentry, "prx")

\* parse.py:922-955
DerivativeParts(subentry) ==
    LET l_elem == find_first_by_class(subentry, "l") IN
    (IF l_elem = <<>> THEN <<>>
     ELSE <<Bold(normalize_whitespace(get_all_text(l_elem[1])))>>)
    \o DerivativePronunciation(subentry)
    \o SubentryVariantText(subentry)
    \o PlainText(subentry, "pos")

\* A line, when there is one, and the blank line after it.
Spaced(lines) == IF lines # <<>> THEN lines \o <<<<>>>> ELSE <<>>

RECURSIVE DerivativeLines(_, _)
DerivativeLines(subentries, i) ==
    IF i > Len(subentries) THEN <<>>
    ELSE Spaced(Flush(DerivativeParts(subentries[i])))
         \o DerivativeLines(subentries, i + 1)

RECURSIVE DerivativeTracked(_, _)
DerivativeTracked(subentries, i) ==
    IF i > Len(subentries) THEN <<>>
    ELSE FoundTracked(SubentryVariant(subentries[i]))
         \o DerivativeTracked(subentries, i + 1)

format_derivatives_section(block_elem) ==
    JoinWith(<<"\n">>,
        SectionHead(DERIVATIVES)
            \o DerivativeLines(find_by_class(block_elem, "subEntry"), 1))

\* s.replace(old, ""), old not empty.
RECURSIVE remove(_, _)
remove(s, old) ==
    IF s = <<>> THEN <<>>
    ELSE IF startswith(s, old) THEN remove(From(s, Len(old) + 1), old)
    ELSE <<Head(s)>> \o remove(Tail(s), old)

\* parse.py:966-977: the lines after the head of the section.
OriginLines(etym_elem) ==
    LET content_elem == find_first_by_class(etym_elem, "x_xo1") IN
    IF content_elem # <<>>
    THEN <<normalize_whitespace(format_inline_content(content_elem[1]))>>
    ELSE Kept(strip(remove(normalize_whitespace(format_inline_content(etym_elem)),
                            ORIGIN)))

format_origin_section(etym_elem) ==
    JoinWith(<<"\n">>, SectionHead(<<"#", "#", " ">> \o ORIGIN) \o OriginLines(etym_elem))

OriginTracked(etym_elem) ==
    LET content_elem == find_first_by_class(etym_elem, "x_xo1") IN
    IF content_elem # <<>> THEN InlineTracked(content_elem[1])
    ELSE InlineTracked(etym_elem)

-----------------------------------------------------------------------------
(* xml_to_markdown, parse.py:1027-1079 *)

\* parse.py:1039-1042
HeaderSections(root) == Spaced(Kept(format_header(root)))

\* parse.py:1049-1052: what a child of the sg container appends.
PosSections(child) ==
    IF has_class(child, "se1") THEN Kept(format_pos_block(child)) ELSE <<>>

\* parse.py:1057-1075: what a child of the root appends.
SpecialSections(child) ==
    LET classes == get_class(child) IN
    IF In("subEntryBlock", classes)
    THEN IF In("t_phrases", classes) THEN <<format_phrases_section(child)>>
         ELSE IF In("t_phrasalVerbs", classes)
              THEN <<format_phrasal_verbs_section(child)>>
         ELSE IF In("t_derivatives", classes)
              THEN <<format_derivatives_section(child)>>
         ELSE <<>>
    ELSE IF In("note", classes)
    THEN Spaced(NoteLines(format_note(child)))
    ELSE IF In("etym", classes) THEN <<format_origin_section(child)>>
    ELSE <<>>

\* The elements tracked while a child of the sg container is handled.
PosChildTracked(child) ==
    <<child>> \o (IF has_class(child, "se1") THEN PosTracked(child) ELSE <<>>)

\* The elements tracked while a child of the root is handled.
SpecialChildTracked(child) ==
    LET classes == get_class(child) IN
    <<child>>
    \o (IF In("subEntryBlock", classes)
        THEN IF In("t_phrases", classes) \/ In("t_phrasalVerbs", classes)
             THEN PhraseTracked(find_by_class(child, "subEntry"), 1)
             ELSE IF In("t_derivatives", classes)
                  THEN DerivativeTracked(find_by_class(child, "subEntry"), 1)
                  ELSE <<>>
        ELSE IF In("note", classes) THEN NoteTracked(child)
        ELSE IF In("etym", classes) THEN OriginTracked(child)
        ELSE <<>>)

\* The children of the first sg element, none when there is no sg.
SgChildren(root) ==
    LET sg_elem == find_first_by_class(root, "sg") IN
    IF sg_elem = <<>> THEN <<>> ELSE sg_elem[1].kids

\* The loop of parse.py:1047-1052.
RECURSIVE PosSectionsOf(_, _)
PosSectionsOf(kids, i) ==
    IF i > Len(kids) THEN <<>>
    ELSE PosSections(kids[i]) \o PosSectionsOf(kids, i + 1)

\* The loop of parse.py:1055-1075.
RECURSIVE SpecialSectionsOf(_, _)
SpecialSectionsOf(kids, i) ==
    IF i > Len(kids) THEN <<>>
    ELSE SpecialSections(kids[i]) \o SpecialSectionsOf(kids, i + 1)

RECURSIVE PosTrackedOf(_, _)
PosTrackedOf(kids, i) ==
    IF i > Len(kids) THEN <<>>
    ELSE PosChildTracked(kids[i]) \o PosTrackedOf(kids, i + 1)

RECURSIVE SpecialTrackedOf(_, _)
SpecialTrackedOf(kids, i) ==
    IF i > Len(kids) THEN <<>>
    ELSE SpecialChildTracked(kids[i]) \o SpecialTrackedOf(kids, i + 1)

xml_to_markdown(root) ==
    clean_punctuation(JoinWith(<<"\n">>,
        HeaderSections(root)
            \o PosSectionsOf(SgChildren(root), 1)
            \o SpecialSectionsOf(root.kids, 1)))

\* The elements xml_to_markdown(root) passes to track_element, in order.
MarkdownTracked(root) ==
    <<root>> \o HeaderTracked(root)
        \o PosTrackedOf(SgChildren(root), 1)
        \o SpecialTrackedOf(root.kids, 1)

-----------------------------------------------------------------------------
(* Specification: xml_to_markdown on one entry, section by section *)

MaxSections == 3

Sense(number, definition) ==
    Span(<<"se2">>, None,
         <<Span(<<"sn">>, number, <<>>),
           Span(<<"msDict">>, None, <<Span(<<"df">>, definition, <<>>)>>)>>)

HeadGroup ==
    Span(<<"hg">>, None,
         <<Span(<<"hw">>, <<"w">>, <<Span(<<"ty_hom">>, <<"1">>, <<>>)>>),
           Span(<<"prx">>, <<"|", "w", "|">>, <<>>)>>)

\* A sense group with a block of numbered senses and a block with a direct
\* definition.
SenseGroup ==
    Span(<<"sg">>, None,
         <<Span(<<"se1">>, None,
                <<Span(<<"pos">>, <<"n">>, <<>>), Sense(<<"1">>, <<"d", " ", ".">>)>>),
           Span(<<"se1">>, None,
                <<Span(<<"pos">>, <<"v">>, <<>>),
                  Span(<<"msDict">>, None, <<Span(<<"df">>, <<"e">>, <<>>)>>)>>)>>)

\* A sense group whose first block renders to nothing.
SparseSenseGroup ==
    Span(<<"sg">>, None,
         <<Span(<<"se1">>, None, <<>>),
           Span(<<"zz">>, <<"u">>, <<>>),
           Span(<<"se1">>, None, <<Span(<<"pos">>, <<"a">>, <<>>)>>)>>)

Subentry ==
    Span(<<"subEntry">>, None,
         <<Span(<<"l">>, <<"p">>, <<>>),
           Span(<<"msDict">>, None, <<Span(<<"df">>, <<"m">>, <<>>)>>)>>)

Block(type, kids) == Span(<<"subEntryBlock", type>>, None, kids)

EntryChildren ==
    {HeadGroup, SenseGroup, SparseSenseGroup,
     Block("t_phrases", <<Subentry>>), Block("t_phrases", <<>>),
     Block("t_phrasalVerbs", <<>>),
     Block("t_derivatives", <<Subentry>>), Block("t_derivatives", <<>>),
     Span(<<"note">>, None, <<E("span", <<"lbl", "x_blk">>, None, <<"L">>, <<"B">>, <<>>)>>),
     Span(<<"etym">>, None, <<Span(<<"x_xo1">>, <<"o">>, <<>>)>>),
     Span(<<"etym">>, None, <<>>),
     Span(<<"zz">>, <<"u">>, <<>>)}

EntryInputs ==
    {E(D_ENTRY, <<"entry">>, t, None, None, kids) :
        t \in {None, <<"w">>}, kids \in SeqsUpTo(EntryChildren, MaxSections)}

InitEntry == input \in EntryInputs /\ InitCommon

\* Variant of Appended: the new sections put in front.
Prepended(sections, new) == new \o sections

\* sections.append(s) for each s of new.
Appended(sections, new) == sections \o new

\* The sections a step appends, each with the step it comes from: `log`
\* holds the list `sections` of parse.py:1029 in this form.
Origin(kind, at, texts) == [i \in 1..Len(texts) |-> [kind |-> kind, at |-> at, text |-> texts[i]]]

\* parse.py:1032-1042
Header ==
    /\ phase = "ready"
    /\ phase' = "sg"
    /\ idx' = 0
    /\ log' = Appended(log, Origin("header", 0, HeaderSections(input)))
    /\ Tracking(<<input>> \o HeaderTracked(input))
    /\ UNCHANGED <<input, output, previous, current_source_file, xml_files, count,
                   written>>

\* parse.py:1047-1052: one child of the sg container.
SgChild ==
    /\ phase = "sg" /\ idx < Len(SgChildren(input))
    /\ idx' = idx + 1
    /\ log' = Appended(log, Origin("pos", idx + 1, PosSections(SgChildren(input)[idx + 1])))
    /\ Tracking(PosChildTracked(SgChildren(input)[idx + 1]))
    /\ UNCHANGED <<phase, input, output, previous, current_source_file, xml_files,
                   count, written>>

\* The sg loop is over, or there is no sg container.
SgDone ==
    /\ phase = "sg" /\ idx = Len(SgChildren(input))
    /\ phase' = "special"
    /\ idx' = 0
    /\ UNCHANGED <<input, output, previous, trackerVars, xml_files, count, log,
                   written>>

\* parse.py:1055-1075: one child of the root.
SpecialChild ==
    /\ phase = "special" /\ idx < Len(input.kids)
    /\ idx' = idx + 1
    /\ log' = Appended(log, Origin("special", idx + 1, SpecialSections(input.kids[idx + 1])))
    /\ Tracking(SpecialChildTracked(input.kids[idx + 1]))
    /\ UNCHANGED <<phase, input, output, previous, current_source_file, xml_files,
                   count, written>>

\* parse.py:1078-1079
Finalize ==
    /\ phase = "special" /\ idx = Len(input.kids)
    /\ phase' = "done"
    /\ output' = clean_punctuation(
                    JoinWith(<<"\n">>, [i \in 1..Len(log) |-> log[i].text]))
    /\ UNCHANGED <<input, previous, trackerVars, directoryVars>>

NextEntry == Header \/ SgChild \/ SgDone \/ SpecialChild \/ Finalize

SpecEntry == InitEntry /\ [][NextEntry]_vars

-----------------------------------------------------------------------------
(* Properties of xml_to_markdown *)

Rank(kind) == CASE kind = "header" -> 0 [] kind = "pos" -> 1 [] kind = "special" -> 2

\* C12: in the list of sections the header comes first, then the
\* part-of-speech blocks in the order of the children of the sg container,
\* then the special sections in the order of the root's children, wherever
\* the sg container sits among them; the output is the cleaned join of
\* exactly these sections.
C12_SectionOrder ==
    /\ \A a, b \in 1..Len(log) :
            a < b =>
                /\ Rank(log[a].kind) <= Rank(log[b].kind)
                /\ log[a].kind = log[b].kind => log[a].at <= log[b].at
    /\ phase = "done" =>
            /\ [i \in 1..Len(log) |-> log[i].text]
                    = HeaderSections(input)
                        \o PosSectionsOf(SgChildren(input), 1)
                        \o SpecialSectionsOf(input.kids, 1)
            /\ output = xml_to_markdown(input)

\* An entry whose etymology comes before its sense group: both blocks of
\* the sense group are in the list before the etymology section.
C12_Witness ==
    /\ phase = "done"
    /\ input.title = <<"w">>
    /\ input.kids = <<Span(<<"etym">>, None, <<Span(<<"x_xo1">>, <<"o">>, <<>>)>>),
                      SenseGroup>>
    /\ [i \in 1..Len(log) |-> <<log[i].kind, log[i].at>>]
            = <<<<"header", 0>>, <<"header", 0>>, <<"pos", 1>>, <<"pos", 2>>,
                <<"special", 1>>>>

\* The root without its i-th child.
Without(root, i) ==
    [root EXCEPT !.kids = SubSeq(root.kids, 1, i - 1)
                            \o SubSeq(root.kids, i + 1, Len(root.kids))]

\* An etymology node without text, or a phrases, phrasal-verbs or
\* derivatives block without sub-entry.
EmptyAnchor(child) ==
    \/ has_class(child, "etym") /\ normalize_whitespace(itertext(child)) = <<>>
    \/ /\ has_class(child, "subEntryBlock")
       /\ \E type \in {"t_phrases", "t_phrasalVerbs", "t_derivatives"} :
                has_class(child, type)
       /\ find_by_class(child, "subEntry") = <<>>

\* C18: a section whose content is empty is omitted entirely: an etymology
\* node without text and a phrases, phrasal-verbs or derivatives block
\* without sub-entries add nothing to the output of xml_to_markdown.
C18_EmptySectionOmitted ==
    phase = "done" =>
        \A i \in 1..Len(input.kids) :
            EmptyAnchor(input.kids[i]) => output = xml_to_markdown(Without(input, i))

-----------------------------------------------------------------------------
(* Specification: xml_to_markdown on several entries, in any order *)

\* Variant of EntryMarkdown: nothing rendered for an entry whose child has
\* a class the tracker holds already.
EntryMarkdownUntracked(t, root) ==
    IF \E i \in 1..Len(root.kids) :
            \E c \in DOMAIN t.classes : has_class(root.kids[i], c)
    THEN <<>>
    ELSE xml_to_markdown(root)

\* The Markdown of an entry converted while the tracker is t: the renderers
\* read no tracker state (track_element, parse.py:246-257, only writes).
EntryMarkdown(t, root) == xml_to_markdown(root)

Entry(title, kids) == E(D_ENTRY, <<"entry">>, title, None, None, kids)

BatchEntries ==
    {Entry(<<"w">>, <<HeadGroup, SenseGroup>>),
     Entry(<<"x">>, <<Span(<<"zz">>, <<"u">>, <<>>), SparseSenseGroup>>),
     Entry(<<"y">>, <<Block("t_phrases", <<Subentry>>), Span(<<"zz">>, <<"t">>, <<>>)>>),
     Entry(<<"z">>, <<E("em", <<"yy">>, None, <<"u">>, None, <<>>)>>)}

\* The entries of one run, all different.
Batches ==
    {b \in SeqsUpTo(BatchEntries, MaxEntries) :
        b # <<>> /\ \A i, j \in 1..Len(b) : i # j => b[i] # b[j]}

\* The tracker at the start: empty, or filled by earlier conversions.
InitialTrackers ==
    {EmptyTracker,
     TrackAll(EmptyTracker, <<"o", ".xml">>, <<Span(<<"zz">>, <<"q">>, <<>>)>>),
     TrackAll(EmptyTracker, <<"o", ".xml">>,
              <<Span(<<"zz">>, <<"q">>, <<>>), E("em", <<"yy">>, None, None, None, <<>>)>>)}

InitBatch ==
    /\ phase = "ready"
    /\ input \in Batches
    /\ output = <<>>
    /\ previous = <<>>
    /\ \E t \in InitialTrackers :
            unhandled_tags = t.tags /\ unhandled_classes = t.classes
    /\ current_source_file = <<"entry", ".xml">>
    /\ calls = <<>>
    /\ xml_files = <<>>
    /\ idx = 0
    /\ count = 0
    /\ log = <<>>
    /\ written = {}

\* xml_to_markdown on the k-th entry, not converted before.
Convert(k) ==
    /\ phase = "ready"
    /\ \A i \in 1..Len(log) : log[i] # k
    /\ output' = EntryMarkdown([tags |-> unhandled_tags,
                                classes |-> unhandled_classes], input[k])
    /\ written' = written \cup {[entry |-> k, text |-> output']}
    /\ log' = Append(log, k)
    /\ Tracking(MarkdownTracked(input[k]))
    /\ UNCHANGED <<phase, input, previous, current_source_file, xml_files, idx, count>>

NextBatch == \E k \in 1..Len(input) : Convert(k)

SpecBatch == InitBatch /\ [][NextBatch]_vars

-----------------------------------------------------------------------------
(* Properties of clean_punctuation: the lines and their indentation *)

\* The leading whitespace of a line.
Indent(line) == SubSeq(line, 1, BlankRun(line))

\* C21: clean_punctuation keeps the line structure: the result has as many
\* lines as the text it was given, and every line of the result starts
\* with exactly the leading whitespace of the line it comes from.
C21_LinesAndIndentKept ==
    /\ phase \in {"once", "twice"} =>
            LET given == IF phase = "once" THEN input ELSE previous IN
            /\ Len(SplitLines(output)) = Len(SplitLines(given))
            /\ \A i \in 1..Len(SplitLines(given)) :
                    Indent(SplitLines(output)[i]) = Indent(SplitLines(given)[i])

\* A text of two lines, the second one indented, that the pass changes.
C21_Witness ==
    /\ phase = "once"
    /\ Len(SplitLines(input)) = 2
    /\ Indent(SplitLines(input)[2]) # <<>>
    /\ output # input

\* C22: in every line of the result, after the leading indentation, no
\* whitespace character stands immediately before one of . , ; : ! ?
C22_NoBlankBeforePunctuation ==
    phase = "once" =>
        \A i \in 1..Len(SplitLines(output)) :
            LET line == SplitLines(output)[i] IN
            \A j \in (BlankRun(line) + 2)..Len(line) :
                line[j] \in Punctuation => line[j - 1] \notin Whitespace

-----------------------------------------------------------------------------
(* Properties of format_inline_content: marker tags and own-line children *)

\* The text of an element or the tail of a child as the renderer appends
\* it: nothing when it is missing or empty.
Given(text) == IF text = None THEN <<>> ELSE text

\* C23: for a child whose tag is a pronunciation, definition or
\* part-of-speech marker, format_inline_content emits nothing of the child's
\* text and of its descendants, emits the child's tail, and has passed the
\* child to the tracker.
C23_MarkerSkipped ==
    (/\ phase = "done"
     /\ Len(input.kids) = 1
     /\ input.kids[1].tag \in {D_PRN, D_DEF, D_POS}) =>
        /\ output = Given(input.text) \o Given(input.kids[1].tail)
        /\ calls = <<<<current_source_file, input.kids[1]>>>>

\* A part-of-speech marker with a class that has a styling rule, a text, a
\* child and a tail: only the tail is rendered.
C23_Witness ==
    /\ phase = "done"
    /\ Len(input.kids) = 1
    /\ input.kids[1].tag = D_POS
    /\ input.kids[1].cls = <<"bold">>
    /\ input.kids[1].text = <<"w">>
    /\ Len(input.kids[1].kids) = 1
    /\ input.text = <<"r", " ">>
    /\ output = <<"r", " ", " ", "t">>

\* The child without its own-line class and without its tail.
Bare(child) ==
    [child EXCEPT !.cls = IF child.cls = None THEN None
                          ELSE SelectSeq(child.cls, LAMBDA c : c # "x_blk"),
                  !.tail = None]

\* The rendering of the root with the bare child, a line break, the tail.
OwnLineForm(root, tail) ==
    format_inline_content([root EXCEPT !.kids = <<Bare(root.kids[1])>>])
        \o <<"\n">> \o tail

\* C24: for a child with the own-line class, format_inline_content puts a
\* line break directly after the rendered content of the child and before
\* its tail, whichever rule renders the child, the superscript,
\* homograph-number and subscript rules included.
C24_OwnLineBreak ==
    (/\ phase = "done"
     /\ Len(input.kids) = 1
     /\ has_class(input.kids[1], "x_blk")
     /\ input.kids[1].tag \notin SkipTags) =>
        \/ output = OwnLineForm(input, Given(input.kids[1].tail))
        \/ output = OwnLineForm(input, lstrip(Given(input.kids[1].tail)))

\* The same for the children that no superscript or subscript rule renders.
OwnLineBreakUnlessScript ==
    (Len(input.kids) = 1 /\ Rule(input.kids[1]) \notin ScriptRules) => C24_OwnLineBreak

-----------------------------------------------------------------------------
(* Properties of format_sense: the prefix of the main line and the place of
   the subsense lines *)

\* The text of the sense number, empty when the sense has no number element.
SenseNumberText(se2_elem) ==
    IF find_first_by_class_direct(se2_elem, "sn") = <<>> THEN <<>>
    ELSE strip(get_all_text(find_first_by_class_direct(se2_elem, "sn")[1]))

\* The prefix the main line is to start with; nothing is asked of a sense
\* without number element and without subsense flag.
MainLinePrefix(se2_elem, is_subsense) ==
    IF is_subsense \/ SenseNumberText(se2_elem) = <<"bullet">> THEN Bullet
    ELSE IF find_first_by_class_direct(se2_elem, "sn") = <<>> THEN <<>>
    ELSE SenseNumberText(se2_elem) \o <<" ">>

\* Some direct definition group that is no subsense group has content.
HasMainLine(se2_elem) ==
    SenseLoop(find_by_class_direct(se2_elem, "msDict"), 1)[2] # <<>>

\* C25: the main line of format_sense starts with the bullet prefix when
\* the sense number is the bullet mark or the subsense flag is set, and
\* otherwise with the sense number and one space; the lines of the
\* subsense groups start with the bullet prefix and all come after the
\* main line, whatever the order of the groups in the document.
C25_MainLineFirst ==
    (phase = "done" /\ output # <<>>) =>
        LET lines == SplitLines(output) IN
        /\ HasMainLine(input.se2_elem) =>
                startswith(lines[1], MainLinePrefix(input.se2_elem, input.is_subsense))
        /\ \A i \in 1..Len(lines) :
                (i > 1 \/ ~HasMainLine(input.se2_elem)) => startswith(lines[i], Bullet)

\* The same for the senses that have a number element.
MainLineFirstWithNumber ==
    find_first_by_class_direct(input.se2_elem, "sn") # <<>> => C25_MainLineFirst

-----------------------------------------------------------------------------
(* Specification: format_pos_block on one part-of-speech block *)

MaxParts == 4

\* The text of the part at place i of a definition group: each place has a
\* letter of its own, so that a rendered line tells the parts it holds.
Letters == <<"a", "b", "c", "d", "e", "f">>

PartKinds == {"df", "gp", "eg", "note", "zz"}

DirectGroup(kinds) ==
    Span(<<"msDict">>, None,
         [i \in 1..Len(kinds) |-> Span(<<kinds[i]>>, <<Letters[i]>>, <<>>)])

\* Blocks with one direct definition group, alone or with a numbered sense
\* before or after it.
PosInputs ==
    {Span(<<"se1">>, None,
          <<Span(<<"pos">>, <<"n">>, <<>>)>> \o before \o <<DirectGroup(kinds)>> \o after) :
        kinds \in SeqsUpTo(PartKinds, MaxParts),
        before \in {<<>>, <<Sense(<<"1">>, <<"s">>)>>},
        after \in {<<>>, <<Sense(<<"2">>, <<"s">>)>>}}

InitPos == input \in PosInputs /\ InitCommon

FormatPosBlock ==
    /\ phase = "ready"
    /\ phase' = "done"
    /\ output' = format_pos_block(input)
    /\ Tracking(PosTracked(input))
    /\ UNCHANGED <<input, previous, current_source_file, directoryVars>>

NextPos == FormatPosBlock

SpecPos == InitPos /\ [][NextPos]_vars

\* The direct definition group of the block and the kinds of its parts.
GroupOf(se1_elem) == find_by_class_direct(se1_elem, "msDict")[1]

KindAt(se1_elem, i) == GroupOf(se1_elem).kids[i].cls[1]

\* The places of the lines of `lines` that hold the character ch.
LinesWith(lines, ch) ==
    {j \in 1..Len(lines) : \E k \in 1..Len(lines[j]) : lines[j][k] = ch}

\* The line of `lines` that holds ch, when there is exactly one.
LineOf(lines, ch) == CHOOSE j \in LinesWith(lines, ch) : TRUE

\* The place of ch in the line.
PlaceIn(line, ch) == CHOOSE k \in 1..Len(line) : line[k] = ch

\* Some part of kind note stands between the places i and j.
NoteBetween(se1_elem, i, j) ==
    \E k \in (i + 1)..(j - 1) : KindAt(se1_elem, k) = "note"

\* The parts of the direct group come out in document order: every
\* definition, punctuation, example and note part on exactly one line, the
\* note on a blockquote line of its own, two other parts on the same line
\* exactly when no note stands between them, and an earlier part before a
\* later one.
DocumentOrderKept(se1_elem, lines) ==
    LET n == Len(GroupOf(se1_elem).kids) IN
    /\ \A i \in 1..n :
          IF KindAt(se1_elem, i) = "zz" THEN LinesWith(lines, Letters[i]) = {}
          ELSE Cardinality(LinesWith(lines, Letters[i])) = 1
    /\ \A i \in 1..n :
          KindAt(se1_elem, i) = "note" =>
              lines[LineOf(lines, Letters[i])] = <<">", " ", Letters[i]>>
    /\ \A i \in 1..n : \A j \in (i + 1)..n :
          (KindAt(se1_elem, i) # "zz" /\ KindAt(se1_elem, j) # "zz") =>
              LET li == LineOf(lines, Letters[i])
                  lj == LineOf(lines, Letters[j])
              IN /\ li <= lj
                 /\ li = lj <=> (/\ KindAt(se1_elem, i) # "note"
                                /\ KindAt(se1_elem, j) # "note"
                                /\ ~NoteBetween(se1_elem, i, j))
                 /\ li = lj =>
                        PlaceIn(lines[li], Letters[i]) < PlaceIn(lines[li], Letters[j])

\* No part of the direct group is rendered.
NothingOfGroup(se1_elem, lines) ==
    \A i \in 1..Len(Letters) : LinesWith(lines, Letters[i]) = {}

\* C26: in a block without numbered senses format_pos_block keeps the
\* document order across an embedded note: the parts before the note are
\* flushed as one line before the blockquote line of the note and the parts
\* after it stand on a later line; in a block with a numbered sense the
\* direct definition groups are not rendered at all.
C26_NoteKeepsOrder ==
    phase = "done" =>
        IF find_by_class_direct(input, "se2") = <<>>
        THEN DocumentOrderKept(input, SplitLines(output))
        ELSE NothingOfGroup(input, SplitLines(output))

C26_Witness ==
    /\ phase = "done"
    /\ find_by_class_direct(input, "se2") = <<>>
    /\ Len(GroupOf(input).kids) = 4
    /\ KindAt(input, 1) = "df" /\ KindAt(input, 2) = "gp"
    /\ KindAt(input, 3) = "note" /\ KindAt(input, 4) = "eg"
    /\ output = <<"*", "*", "n", "*", "*", "\n", "\n", "a", " ", "b", "\n", "\n",
                 ">", " ", "c", "\n", "d">>

-----------------------------------------------------------------------------
(* Specification: format_header on one entry *)

\* The texts of the homograph number of a headword.
HomographTexts == {<<"1">>, <<"7">>, <<"1", "2">>, <<"1", "0">>, <<" ", "3", " ">>}

HeadwordSpans ==
    {Span(<<"hw">>, <<"w">>, hom) :
        hom \in {<<>>} \cup {<<Span(<<"ty_hom">>, h, <<>>)>> : h \in HomographTexts}}

HeaderInputs ==
    {E(D_ENTRY, <<"entry">>, t, None, None,
       <<Span(<<"hg">>, None, <<hw>> \o prx \o vg)>>) :
        t \in {None, <<"w">>, <<"b", "o", "w">>},
        hw \in HeadwordSpans,
        prx \in {<<>>, <<Span(<<"prx">>, <<"|", "w", "|">>, <<>>)>>},
        vg \in {<<>>, <<Span(<<"vg">>, <<"v">>, <<>>)>>,
                <<Span(<<"vg">>, <<"v", " ">>, <<Span(<<"bold">>, <<"x">>, <<>>)>>)>>}}

InitHeader == input \in HeaderInputs /\ InitCommon

FormatHeader ==
    /\ phase = "ready"
    /\ phase' = "done"
    /\ output' = format_header(input)
    /\ Tracking(HeaderTracked(input))
    /\ UNCHANGED <<input, previous, current_source_file, directoryVars>>

NextHeader == FormatHeader

SpecHeader == InitHeader /\ [][NextHeader]_vars

\* The homograph number of the headword of the entry, empty when it has none.
HomographOf(root) ==
    IF find_first_by_class(find_first_by_class(root, "hw")[1], "ty_hom") = <<>> THEN <<>>
    ELSE get_all_text(find_first_by_class(find_first_by_class(root, "hw")[1], "ty_hom")[1])

\* The heading of the entry: the first word of the header line.
HeadingOf(text) ==
    IF find(From(text, 3), <<" ">>) = 0 THEN text
    ELSE SubSeq(text, 1, find(From(text, 3), <<" ">>) + 1)

\* C27: for an entry with title T whose headword carries a homograph number
\* of digits, the heading format_header emits is `# T` followed by the
\* superscript of every digit of the number, as in the text of a link.
C27_HeadingSuperscript ==
    (/\ phase = "done"
     /\ Truthy(input.title)
     /\ isdigit(HomographOf(input))) =>
        HeadingOf(output) = <<"#", " ">> \o input.title \o ToSuperscript(HomographOf(input))

\* The same for the numbers of one digit.
HeadingSuperscriptOneDigit ==
    Len(HomographOf(input)) = 1 => C27_HeadingSuperscript

-----------------------------------------------------------------------------
(* Specification: find_by_class and find_first_by_class on one tree *)

FindClasses == {None, <<"target">>, <<"other">>, <<"other", "target">>}

FindLeaves == {Span(c, <<"l">>, <<>>) : c \in {None, <<"target">>, <<"other">>}}

FindChildren ==
    {Span(c, t, kids) :
        c \in FindClasses, t \in {<<"1">>, <<"2">>}, kids \in SeqsUpTo(FindLeaves, 1)}

FindInputs ==
    {[elem |-> Span(c, None, kids), cls |-> token, direct_only |-> d] :
        c \in {None, <<"target">>},
        kids \in SeqsUpTo(FindChildren, MaxKids),
        token \in {"target", "other"},
        d \in BOOLEAN}

InitFind == input \in FindInputs /\ InitCommon

\* Both queries on the same node, token and flag.
Find ==
    /\ phase = "ready"
    /\ phase' = "done"
    /\ output' = IF input.direct_only
                 THEN [all |-> find_by_class_direct(input.elem, input.cls),
                       first |-> find_first_by_class_direct(input.elem, input.cls)]
                 ELSE [all |-> find_by_class(input.elem, input.cls),
                       first |-> find_first_by_class(input.elem, input.cls)]
    /\ UNCHANGED <<input, previous, trackerVars, directoryVars>>

NextFind == Find

SpecFind == InitFind /\ [][NextFind]_vars

\* The depth of the trees of FindInputs.
MaxDepth == 2

\* A descendant of n is named by its path: the places of the children to
\* go through, from n down.
RECURSIVE IsPath(_, _)
IsPath(n, p) ==
    p = <<>> \/ (Head(p) <= Len(n.kids) /\ IsPath(n.kids[Head(p)], Tail(p)))

RECURSIVE At(_, _)
At(n, p) == IF p = <<>> THEN n ELSE At(n.kids[Head(p)], Tail(p))

\* The descendants of n, only the children when direct_only is set.
DescendantPaths(n, direct_only) ==
    {p \in SeqsUpTo(1..MaxKids, IF direct_only THEN 1 ELSE MaxDepth) :
        p # <<>> /\ IsPath(n, p)}

\* Document order: an element before what it contains, a child before its
\* later siblings and what they contain.
Before(p, q) ==
    \/ Len(p) < Len(q) /\ SubSeq(q, 1, Len(p)) = p
    \/ \E k \in 1..Len(p) :
          /\ k <= Len(q)
          /\ SubSeq(p, 1, k - 1) = SubSeq(q, 1, k - 1)
          /\ p[k] < q[k]

\* The elements at the paths of `paths`, in document order.
InDocumentOrder(n, paths) ==
    [k \in 1..Cardinality(paths) |->
        At(n, CHOOSE p \in paths : Cardinality({q \in paths : Before(q, p)}) = k - 1)]

\* An element carries the tokens of its class attribute, none without one.
Carries(e, token) == e.cls # None /\ \E i \in 1..Len(e.cls) : e.cls[i] = token

\* The descendants of n that carry the token, in document order.
CarryingDescendants(n, token, direct_only) ==
    InDocumentOrder(n, {p \in DescendantPaths(n, direct_only) : Carries(At(n, p), token)})

\* C28: find_first_by_class returns the first element of find_by_class, or
\* not-found when that list is empty; find_by_class returns, in document
\* order, exactly the descendants of the node (the children only when the
\* flag is set) that carry the token.
C28_FindDescendants ==
    phase = "done" =>
        /\ output.first = (IF output.all = <<>> THEN <<>> ELSE <<output.all[1]>>)
        /\ output.all = CarryingDescendants(input.elem, input.cls, input.direct_only)

\* The same for the searches that cannot match the node itself.
FindProperDescendants ==
    (input.direct_only \/ ~Carries(input.elem, input.cls)) => C28_FindDescendants

\* Over the whole subtree the node itself is among the elements searched.
FindIncludesNode ==
    (phase = "done" /\ ~input.direct_only) =>
        /\ output.first = (IF output.all = <<>> THEN <<>> ELSE <<output.all[1]>>)
        /\ output.all =
              (IF Carries(input.elem, input.cls) THEN <<input.elem>> ELSE <<>>)
                \o CarryingDescendants(input.elem, input.cls, FALSE)

-----------------------------------------------------------------------------
(* Specification: a cross-reference to an entry, the file of that entry, and
   the document that holds the cross-reference *)

LinkTitleAlphabet == TitleAlphabet \cup {".", "'"}

\* The entries linked to: find_entries yields only entries whose stripped
\* title is not empty (split.py).
LinkedEntries ==
    {[title |-> t, homograph |-> h, content |-> <<>>] :
        t \in {u \in SeqsUpTo(LinkTitleAlphabet, MaxTitleLen) : Truthy(strip(u))},
        h \in Homographs}

\* <a title="T">w<span class="ty_hom">h</span></a>, the number left out
\* when the entry has none.
LinkTo(entry) ==
    E("a", None, entry.title, <<"w">>, None,
      IF entry.homograph = None THEN <<>>
      ELSE <<Span(<<"ty_hom">>, entry.homograph, <<>>)>>)

\* A definition that refers to the entry.
DefinitionWithLink(entry) == Span(<<"df">>, <<"s", " ">>, <<LinkTo(entry)>>)

\* An entry whose only definition refers to the entry.
EntryWithLink(entry) ==
    E(D_ENTRY, <<"entry">>, <<"e">>, None, None,
      <<Span(<<"sg">>, None,
             <<Span(<<"se1">>, None,
                    <<Span(<<"pos">>, <<"n">>, <<>>),
                      Span(<<"msDict">>, None, <<DefinitionWithLink(entry)>>)>>)>>)>>)

\* Path(name).with_suffix(".md").name for a name that ends in .xml.
MarkdownName(name) == SubSeq(name, 1, Len(name) - 4) \o <<".", "m", "d">>

InitLink == input \in LinkedEntries /\ InitCommon

\* split.py:23-35 and parse.py:1092-1093: the file of the entry linked to.
NameFile ==
    /\ phase = "ready"
    /\ phase' = "named"
    /\ written' = written \cup {MarkdownName(make_filename(input))}
    /\ UNCHANGED <<input, output, previous, trackerVars, xml_files, idx, count, log>>

\* parse.py:426-449: the definition with the link, as the inline renderer
\* emits it.
RenderLink ==
    /\ phase = "named"
    /\ phase' = "rendered"
    /\ output' = format_inline_content(DefinitionWithLink(input))
    /\ Tracking(InlineTracked(DefinitionWithLink(input)))
    /\ UNCHANGED <<input, previous, current_source_file, directoryVars>>

\* parse.py:1027-1079: the document of the entry that holds the definition.
RenderDocument ==
    /\ phase = "rendered"
    /\ phase' = "done"
    /\ previous' = output
    /\ output' = xml_to_markdown(EntryWithLink(input))
    /\ Tracking(MarkdownTracked(EntryWithLink(input)))
    /\ UNCHANGED <<input, current_source_file, directoryVars>>

NextLink == NameFile \/ RenderLink \/ RenderDocument

SpecLink == InitLink /\ [][NextLink]_vars

\* The target of the first link `[display](target)` of the text.
AfterBracket(text) == From(text, find(text, <<"]", "(">>) + 2)

TargetOf(text) == SubSeq(AfterBracket(text), 1, find(AfterBracket(text), <<")">>) - 1)

\* C29: the target of the link format_inline_content emits for an entry
\* with title T and homograph number h is the name of the Markdown file of
\* that entry, also for titles with path-hostile characters or blanks
\* around them.
C29_LinkTargetIsFile ==
    phase = "rendered" => TargetOf(output) \in written

\* The same for the titles that make_filename leaves as they are.
LinkTargetIsFileForKeptTitle ==
    Sanitize(strip(input.title)) = input.title => C29_LinkTargetIsFile

\* C30: the final cleanup pass of xml_to_markdown leaves the target of a
\* link as the inline renderer emitted it, also when the linked title has
\* punctuation, a pipe or a single quote.
C30_CleanupKeepsTarget ==
    phase = "done" => TargetOf(output) = TargetOf(previous)

\* The characters of a title the cleanup pass has a rule for.
CleanupChars == Punctuation \cup {"|", "'", " "}

\* The same for the titles without such a character.
CleanupKeepsPlainTarget ==
    (\A i \in 1..Len(input.title) : input.title[i] \notin CleanupChars)
        => C30_CleanupKeepsTarget

=============================================================================
